---- MODULE Spec2Model ----
(***************************************************************************)
(* Game-deals tracker: the wishlist store (WishlistProvider), the price    *)
(* checker (checkGamePrice / checkAllPrices / generateDealReport) and the  *)
(* mail dispatcher (sendEmail).                                            *)
(*                                                                         *)
(* Prices are fixed-point numbers with one decimal (10 is 1.0); dates are   *)
(* whole numbers (instants).                                               *)
(* A JavaScript null is NULL, a missing field or undefined is UNDEFINED:   *)
(* both are negative, so neither is a price, a date or a gameID.           *)
(***************************************************************************)
EXTENDS Integers, Sequences, FiniteSets, TLC

NULL == 0 - 1
UNDEFINED == 0 - 2
\* user = null
NoUser == "null"

\* ------------------------------------------------------------------ bounds
NumGames == 2
MaxTime == 1
MaxQueue == 1
\* handler calls (add, remove, update) followed in one page load
MaxCalls == 3
\* items of a wishlist handed to checkAllPrices
MaxWishlist == 3
\* results handed to generateDealReport
MaxResults == 4
\* characters of a recipient address after its padding
MaxEmailLen == 5
\* email.length <= 254
MaxEmailLength == 254

Games == 1..NumGames
Times == 0..MaxTime
\* target prices a caller passes to addToWishlist / updateTargetPrice
AddTargets == {NULL, 10}
UpdateTargets == {NULL, 10}
\* Firebase accounts; the demo account is DEMO_USER
Users == {"u1"}
DEMO_USER == "demo-user-123"

VARIABLES
  \* config/firebase: the module-level constants of one page load
  \* and whether localStorage.setItem works in this browser
  isFirebaseConfigured, auth, db, storageOK,
  \* AuthProvider: React state, and the Firebase SDK's signed-in account
  user, isDemo, fbUser, authPending,
  \* WishlistProvider: React state; captured is the items value the handlers
  \* of the current render closed over
  mounted, items, captured, loading,
  \* the two backends
  localStore, cloud, listeners, snapQueue,
  \* the clock, the last store call and what it wrote, and the gameIDs added
  \* and not removed since the backend was loaded (history), the number of
  \* handler calls so far
  now, lastCall, tracked, calls,
  \* checkAllPrices: its arguments, its position, its locals, the provider
  \* fetches in flight, and the run's events in order (history)
  wishlist, hasProgress, cpc, ci, results, inFlight, trace,
  \* checkGamePrice's local const deals of the last settled fetch
  fetched,
  \* generateDealReport: its argument and what it returned
  reportInput, report,
  \* services/email: the module-level ids of one page load, the recipient, the
  \* position of sendEmail, what it settled with, the calls made to the
  \* transport, and the entry point and the error thrown (history)
  EMAILJS_SERVICE_ID, EMAILJS_TEMPLATE_ID, EMAILJS_PUBLIC_KEY,
  to_email, mpc, mailResult, importCalls, sendCalls, mailVia, mailError,
  \* EmailReportModal: React state, and the position of handleSend; the error
  \* state the pages display (HomePage, SearchPage, WishlistPage)
  status, message, reportType, hpc, pageError,
  \* handleSend's local const alerts
  alerts,
  \* the page's showEmailModal, and the positions of the handleSend calls that
  \* were started before the current one and have not returned
  isOpen, earlier,
  \* UserPreferencesProvider: React state, the local and the cloud copy, the
  \* position of the loading effect, the pending setDoc calls and the last call
  preferences, prefsLoading, localPrefs, cloudPrefs, ppc, prefWrites, lastPrefOp,
  lastPrefWrite,
  \* RateLimiter: its timestamps map, Date.now(), the calls admitted for each key
  \* since its last reset, and the last call with what it returned
  timestamps, clock, admitted, lastLimiterCall

envVars == <<isFirebaseConfigured, auth, db, storageOK>>
authVars == <<user, isDemo, fbUser, authPending>>
storeVars == <<mounted, items, captured, loading, localStore, cloud, listeners,
               snapQueue, now, lastCall, tracked, calls>>
wishlistVars == <<envVars, authVars, storeVars>>
checkVars == <<wishlist, hasProgress, cpc, ci, results, inFlight, trace, fetched>>
reportVars == <<reportInput, report>>
mailEnvVars == <<EMAILJS_SERVICE_ID, EMAILJS_TEMPLATE_ID, EMAILJS_PUBLIC_KEY>>
mailVars == <<mailEnvVars, to_email, mpc, mailResult, importCalls, sendCalls, mailVia,
              mailError>>
uiVars == <<status, message, reportType, hpc, pageError, alerts, isOpen, earlier>>
prefVars == <<preferences, prefsLoading, localPrefs, cloudPrefs, ppc, prefWrites,
              lastPrefOp, lastPrefWrite>>
limiterVars == <<timestamps, clock, admitted, lastLimiterCall>>
pageVars == <<prefVars, limiterVars>>
serviceVars == <<checkVars, reportVars, mailVars, uiVars, pageVars>>
vars == <<wishlistVars, checkVars, reportVars, mailVars, uiVars, pageVars>>

\* --------------------------------------------------------------- helpers
RECURSIVE SelectSeqBy(_, _)

\* a filter that keeps every entry
FilterOutKeepsAll(list, g) == list

\* items.filter(i => i.gameID !== gameID)
FilterOut(list, g) == SelectSeq(list, LAMBDA i : i.gameID # g)

\* a merge that also drops the item's lastChecked
WithTargetPriceDropsDate(item, tp) ==
  [item EXCEPT !.targetPrice = tp, !.lastChecked = UNDEFINED]

\* { ...item, targetPrice }
WithTargetPrice(item, tp) == [item EXCEPT !.targetPrice = tp]

\* the ascending sequence of a finite set of integers
SelectSeqBy(S, acc) ==
  IF S = {} THEN acc
  ELSE LET m == CHOOSE x \in S : \A y \in S : x <= y
       IN SelectSeqBy(S \ {m}, Append(acc, m))
SortedSeq(S) == SelectSeqBy(S, <<>>)

\* ---------------------------------------------------------- wishlist items
\* what a caller passes to addToWishlist (Omit<WishlistItem, id|addedAt|lastChecked>)
ItemInput(g, tp) ==
  [gameID |-> g, gameTitle |-> 100 + g, steamAppID |-> 200 + g,
   thumb |-> 300 + g, targetPrice |-> tp, currentBestPrice |-> 10 * g]

\* { ...item, id: item.gameID, addedAt: now, lastChecked: now }
NewItem(item, t) ==
  [id |-> item.gameID, gameID |-> item.gameID, gameTitle |-> item.gameTitle,
   steamAppID |-> item.steamAppID, thumb |-> item.thumb,
   targetPrice |-> item.targetPrice, currentBestPrice |-> item.currentBestPrice,
   addedAt |-> t, lastChecked |-> t]

\* Date.prototype.toJSON and new Date(isoString): the ISO text of instant t is
\* written IsoBase + t, which is no instant of the model
IsoBase == 1000 * 1000
ToISOString(t) == IsoBase + t
\* a parse that keeps the calendar day and drops the time of day
ParseDateDayOnly(s) == ((s - IsoBase) \div 2) * 2
ParseDate(s) == s - IsoBase

\* JSON.stringify(wishlist): dates become ISO strings
Stringify(list) ==
  [k \in 1..Len(list) |->
     [list[k] EXCEPT !.addedAt = ToISOString(@), !.lastChecked = ToISOString(@)]]

\* localStorage: <<>> when the key is not set, else <<the stored text>>
NoKey == <<>>
Stored(text) == <<text>>

loadLocalWishlist ==
  IF localStore # NoKey
  THEN LET parsed == localStore[1]
       IN [k \in 1..Len(parsed) |->
             [parsed[k] EXCEPT !.addedAt = ParseDate(@), !.lastChecked = ParseDate(@)]]
  ELSE <<>>

\* localStorage.setItem throws where storage is full or disabled; the error is
\* logged and swallowed
saveLocalWishlist(list) ==
  localStore' = IF storageOK THEN Stored(Stringify(list)) ELSE localStore

\* a backend test that forgets the missing Firestore handle
LocalModeIgnoresDb == isDemo \/ ~isFirebaseConfigured

\* isDemo || !isFirebaseConfigured || !db
LocalMode == isDemo \/ ~isFirebaseConfigured \/ ~db

\* ------------------------------------------------------------ cloud store
\* a document that does not exist
ABSENT ==
  [exists |-> FALSE, gameID |-> UNDEFINED, gameTitle |-> UNDEFINED,
   steamAppID |-> UNDEFINED, thumb |-> UNDEFINED, targetPrice |-> UNDEFINED,
   currentBestPrice |-> UNDEFINED, addedAt |-> UNDEFINED, lastChecked |-> UNDEFINED]
NoDocs == [g \in Games |-> ABSENT]

\* setDoc(docRef, { ...item, addedAt: serverTimestamp(), lastChecked: serverTimestamp() })
AddedDoc(item, t) ==
  [exists |-> TRUE, gameID |-> item.gameID, gameTitle |-> item.gameTitle,
   steamAppID |-> item.steamAppID, thumb |-> item.thumb,
   targetPrice |-> item.targetPrice, currentBestPrice |-> item.currentBestPrice,
   addedAt |-> t, lastChecked |-> t]

\* setDoc(docRef, { targetPrice }, { merge: true }): creates the document when absent
MergedDoc(old, tp) ==
  [old EXCEPT !.exists = TRUE, !.targetPrice = tp]

\* data.addedAt?.toDate() || new Date()
DateOrNow(v, t) == IF v = UNDEFINED THEN t ELSE v

\* the onSnapshot callback's mapping of snapshot.docs (document-id order)
SnapshotItems(docs, t) ==
  LET ids == SortedSeq({g \in Games : docs[g].exists})
  IN [k \in 1..Len(ids) |->
        LET data == docs[ids[k]]
        IN [id |-> ids[k], gameID |-> data.gameID, gameTitle |-> data.gameTitle,
            steamAppID |-> data.steamAppID, thumb |-> data.thumb,
            targetPrice |-> data.targetPrice,
            currentBestPrice |-> data.currentBestPrice,
            addedAt |-> DateOrNow(data.addedAt, t),
            lastChecked |-> DateOrNow(data.lastChecked, t)]]

\* the gameIDs a backend holds when a session loads it
IdsOfList(list) == {list[k].gameID : k \in 1..Len(list)} \cap Games
IdsOfDocs(docs) == {g \in Games : docs[g].exists /\ docs[g].gameID # UNDEFINED}

\* the last handler call: which handler, the backends it wrote to, and whether
\* it rejected
NoCall == [op |-> "none", wrote |-> {}, rejected |-> FALSE]
Call(op, wrote, rejected) == [op |-> op, wrote |-> wrote, rejected |-> rejected]

\* a cleanup that leaves the previous listener subscribed
UnsubscribeNothing(ls) == ls

\* the effect's cleanup, return () => unsubscribe(): the previous listener is
\* removed; listeners is the sequence of the subscribed listeners' users
Unsubscribe(ls) == <<>>

\* ------------------------------------------------- WishlistProvider effect
\* an effect whose no-user branch leaves the list as it is
WishlistEffectKeepsList(u, demo) ==
  IF u = NoUser
  THEN /\ items' = items
       /\ loading' = FALSE
       /\ listeners' = Unsubscribe(listeners)
       /\ snapQueue' = <<>>
       /\ tracked' = {}
  ELSE IF demo \/ ~isFirebaseConfigured \/ ~db
  THEN /\ items' = loadLocalWishlist
       /\ loading' = FALSE
       /\ listeners' = Unsubscribe(listeners)
       /\ snapQueue' = <<>>
       /\ tracked' = IdsOfList(loadLocalWishlist)
  ELSE /\ items' = items
       /\ loading' = loading
       /\ listeners' = Append(Unsubscribe(listeners), u)
       /\ snapQueue' = <<cloud[u]>>
       /\ tracked' = IdsOfDocs(cloud[u])

\* useEffect(..., [user, isDemo]): the previous run's cleanup (unsubscribe), then
\* the body with the new user and mode
WishlistEffect(u, demo) ==
  IF u = NoUser
  THEN /\ items' = <<>>
       /\ loading' = FALSE
       /\ listeners' = Unsubscribe(listeners)
       /\ snapQueue' = <<>>
       /\ tracked' = {}
  ELSE IF demo \/ ~isFirebaseConfigured \/ ~db
  THEN /\ items' = loadLocalWishlist
       /\ loading' = FALSE
       /\ listeners' = Unsubscribe(listeners)
       /\ snapQueue' = <<>>
       /\ tracked' = IdsOfList(loadLocalWishlist)
  ELSE /\ items' = items
       /\ loading' = loading
       /\ listeners' = Append(Unsubscribe(listeners), u)
       /\ snapQueue' = <<cloud[u]>>
       /\ tracked' = IdsOfDocs(cloud[u])

\* a change of auth state re-renders and, when a dependency changed, re-runs the effect
AfterAuthChange(u, demo, changed) ==
  /\ user' = u
  /\ isDemo' = demo
  /\ IF changed THEN WishlistEffect(u, demo)
     ELSE UNCHANGED <<items, loading, listeners, snapQueue, tracked>>
  /\ captured' = items'
  /\ lastCall' = NoCall
  /\ UNCHANGED <<serviceVars, envVars, calls, mounted, localStore, cloud, now>>

\* ------------------------------------------------------------------ init
WInit ==
  /\ isFirebaseConfigured \in BOOLEAN
  /\ auth \in BOOLEAN
  /\ db \in BOOLEAN
  /\ storageOK \in BOOLEAN
  /\ (~isFirebaseConfigured => ~auth)
  /\ (db => auth)
  /\ user = NoUser
  /\ isDemo = ~isFirebaseConfigured
  /\ fbUser \in (IF auth THEN Users \cup {NoUser} ELSE {NoUser})
  /\ authPending = FALSE
  /\ mounted = FALSE
  /\ items = <<>>
  /\ captured = <<>>
  /\ loading = TRUE
  /\ localStore = NoKey
  /\ cloud = [u \in Users |-> NoDocs]
  /\ listeners = <<>>
  /\ snapQueue = <<>>
  /\ now = 0
  /\ lastCall = NoCall
  /\ tracked = {}
  /\ calls = 0

\* ---------------------------------------------------------------- actions
\* first render: AuthProvider registers onAuthStateChanged (which reports the
\* current account), WishlistProvider's effect runs with user = null
Mount ==
  /\ ~mounted
  /\ mounted' = TRUE
  /\ authPending' = auth
  /\ WishlistEffect(NoUser, isDemo)
  /\ captured' = items'
  /\ lastCall' = NoCall
  /\ UNCHANGED <<serviceVars, envVars, calls, user, isDemo, fbUser, localStore, cloud, now>>

Tick ==
  /\ mounted
  /\ now < MaxTime
  /\ now' = now + 1
  /\ lastCall' = NoCall
  /\ UNCHANGED <<serviceVars, envVars, calls, authVars, mounted, items, captured, loading, localStore,
                 cloud, listeners, snapQueue, tracked>>

loginAsDemo ==
  /\ mounted
  /\ fbUser' = fbUser
  /\ authPending' = authPending
  /\ AfterAuthChange(DEMO_USER, TRUE, user # DEMO_USER \/ ~isDemo)

\* login(email, password): without Firebase auth it is loginAsDemo; otherwise
\* signInWithEmailAndPassword, whose success reaches the app through the listener
login(u) ==
  /\ mounted
  /\ IF ~auth
     THEN /\ fbUser' = fbUser
          /\ authPending' = authPending
          /\ AfterAuthChange(DEMO_USER, TRUE, user # DEMO_USER \/ ~isDemo)
     ELSE /\ fbUser' = u
          /\ authPending' = TRUE
          /\ UNCHANGED <<serviceVars, envVars, user, isDemo, storeVars>>

\* the onAuthStateChanged callback; formatUser may throw when it reads Firestore
onAuthStateChanged ==
  /\ mounted
  /\ authPending
  /\ authPending' = FALSE
  /\ fbUser' = fbUser
  /\ \E formatted \in (IF db /\ fbUser # NoUser THEN BOOLEAN ELSE {TRUE}) :
       IF fbUser # NoUser /\ formatted
       THEN AfterAuthChange(fbUser, FALSE, TRUE)
       ELSE AfterAuthChange(NoUser, isDemo, user # NoUser)

logout ==
  /\ mounted
  /\ IF ~auth \/ isDemo
     THEN /\ fbUser' = fbUser
          /\ authPending' = authPending
          /\ AfterAuthChange(NoUser, ~isFirebaseConfigured,
                             user # NoUser \/ isDemo # ~isFirebaseConfigured)
     ELSE /\ fbUser # NoUser
          /\ fbUser' = NoUser
          /\ authPending' = TRUE
          /\ UNCHANGED <<serviceVars, envVars, user, isDemo, storeVars>>

\* a snapshot callback that appends the snapshot to the list it has
onSnapshotMerges ==
  /\ mounted
  /\ snapQueue # <<>>
  /\ listeners # <<>>
  /\ items' = items \o SnapshotItems(Head(snapQueue), now)
  /\ loading' = FALSE
  /\ snapQueue' = Tail(snapQueue)
  /\ captured' = items'
  /\ lastCall' = NoCall
  /\ UNCHANGED <<serviceVars, envVars, calls, authVars, mounted, localStore, cloud, listeners,
                 now, tracked>>

\* a snapshot reaches the onSnapshot callback: setItems(wishlistItems); setLoading(false)
onSnapshot ==
  /\ mounted
  /\ snapQueue # <<>>
  /\ listeners # <<>>
  /\ items' = SnapshotItems(Head(snapQueue), now)
  /\ loading' = FALSE
  /\ snapQueue' = Tail(snapQueue)
  /\ captured' = items'
  /\ lastCall' = NoCall
  /\ UNCHANGED <<serviceVars, envVars, calls, authVars, mounted, localStore, cloud, listeners, now, tracked>>

\* the onSnapshot error callback: the listener is dead, setLoading(false)
onSnapshotError ==
  /\ mounted
  /\ listeners # <<>>
  /\ listeners' = <<>>
  /\ snapQueue' = <<>>
  /\ loading' = FALSE
  /\ lastCall' = NoCall
  /\ UNCHANGED <<serviceVars, envVars, calls, authVars, mounted, items, captured, localStore, cloud, now,
                 tracked>>

\* a Firestore write of the signed-in user's collection: rejected, or applied and
\* echoed to the live listener as a new snapshot
CloudWrite(op, g, newDoc, newTracked) ==
  /\ Len(snapQueue) < MaxQueue
  /\ \E ok \in BOOLEAN :
       IF ok
       THEN /\ cloud' = [cloud EXCEPT ![user][g] = newDoc]
            /\ snapQueue' = IF listeners # <<>> THEN Append(snapQueue, cloud'[user])
                            ELSE snapQueue
            /\ tracked' = newTracked
            /\ lastCall' = Call(op, {"cloud"}, FALSE)
       ELSE /\ UNCHANGED <<cloud, snapQueue, tracked>>
            /\ lastCall' = Call(op, {"cloud"}, TRUE)
  /\ UNCHANGED <<items, localStore>>

\* a local write that undoes setItems and rejects when the storage write fails
LocalWriteRollsBack(op, updatedItems, newTracked) ==
  /\ items' = (IF storageOK THEN updatedItems ELSE items)
  /\ saveLocalWishlist(updatedItems)
  /\ tracked' = (IF storageOK THEN newTracked ELSE tracked)
  /\ lastCall' = Call(op, {"local"}, ~storageOK)
  /\ UNCHANGED <<cloud, snapQueue>>

\* the local branch of a handler: setItems(updatedItems); saveLocalWishlist(updatedItems)
LocalWrite(op, updatedItems, newTracked) ==
  /\ items' = updatedItems
  /\ saveLocalWishlist(updatedItems)
  /\ tracked' = newTracked
  /\ lastCall' = Call(op, {"local"}, FALSE)
  /\ UNCHANGED <<cloud, snapQueue>>

NoWrite(op) ==
  /\ lastCall' = Call(op, {}, FALSE)
  /\ UNCHANGED <<items, localStore, cloud, snapQueue, tracked>>

\* a handler called from the current render, and the re-render that follows it;
\* the pages await the call without a catch and set no state of their own on a
\* rejection, so the page's error state is left as it is (in serviceVars)
Handler(body) ==
  /\ mounted
  /\ calls < MaxCalls
  /\ calls' = calls + 1
  /\ body
  /\ captured' = items'
  /\ UNCHANGED <<serviceVars, envVars, authVars, mounted, loading, listeners, now>>

addToWishlistBody(g, tp) ==
  IF user = NoUser THEN NoWrite("add")
  ELSE IF LocalMode
  THEN LocalWrite("add",
                  Append(FilterOut(captured, g), NewItem(ItemInput(g, tp), now)),
                  tracked \cup {g})
  ELSE CloudWrite("add", g, AddedDoc(ItemInput(g, tp), now), tracked \cup {g})

removeFromWishlistBody(g) ==
  IF user = NoUser THEN NoWrite("remove")
  ELSE IF LocalMode
  THEN LocalWrite("remove", FilterOut(captured, g), tracked \ {g})
  ELSE CloudWrite("remove", g, ABSENT, tracked \ {g})

updateTargetPriceBody(g, tp) ==
  IF user = NoUser THEN NoWrite("update")
  ELSE IF LocalMode
  THEN LocalWrite("update",
                  [k \in 1..Len(captured) |->
                     IF captured[k].gameID = g
                     THEN WithTargetPrice(captured[k], tp)
                     ELSE captured[k]],
                  tracked)
  ELSE CloudWrite("update", g, MergedDoc(cloud[user][g], tp), tracked)

addToWishlist(g, tp) == Handler(addToWishlistBody(g, tp))
removeFromWishlist(g) == Handler(removeFromWishlistBody(g))
updateTargetPrice(g, tp) == Handler(updateTargetPriceBody(g, tp))

isInWishlist(g) == \E k \in 1..Len(items) : items[k].gameID = g

\* a handler called from an event handler that goes on to call again: the
\* functions it holds are those of the render it was created in, whose items
\* they close over, so the next call sees the same captured list
HandlerThenCallAgain(body) ==
  /\ mounted
  /\ calls < MaxCalls
  /\ calls' = calls + 1
  /\ body
  /\ captured' = captured
  /\ UNCHANGED <<serviceVars, envVars, authVars, mounted, loading, listeners, now>>

\* =========================================================== price checker
\* Numbers of the price checker are fixed-point with one decimal: the JavaScript
\* number x is written 10 * x.  The provider's numeric strings are sequences of
\* characters, a whole part and at most one fractional digit ("9.5").
DigitVal ==
  ("0" :> 0) @@ ("1" :> 1) @@ ("2" :> 2) @@ ("3" :> 3) @@ ("4" :> 4) @@
  ("5" :> 5) @@ ("6" :> 6) @@ ("7" :> 7) @@ ("8" :> 8) @@ ("9" :> 9)

RECURSIVE DigitsValue(_)
DigitsValue(s) ==
  IF s = <<>> THEN 0
  ELSE 10 * DigitsValue(SubSeq(s, 1, Len(s) - 1)) + DigitVal[s[Len(s)]]

\* parseFloat of a numeric string
parseFloat(s) ==
  LET dots == {k \in 1..Len(s) : s[k] = "."}
  IN IF dots = {} THEN 10 * DigitsValue(s)
     ELSE LET d == CHOOSE k \in dots : TRUE
          IN 10 * DigitsValue(SubSeq(s, 1, d - 1))
               + (IF d < Len(s) THEN DigitVal[s[d + 1]] ELSE 0)

\* Math.round of a non-negative number, as a whole number
MathRound(x) == (x + 5) \div 10

\* Math.max(0, x)
MathMax0(x) == IF x > 0 THEN x ELSE 0

STORE_NAMES ==
  [storeID \in {"1", "2", "3", "7", "8", "11", "13", "15", "21", "23", "24", "25",
                "27", "28", "29", "30", "31", "33", "34", "35"} |->
     CASE storeID = "1" -> "Steam"
       [] storeID = "2" -> "GamersGate"
       [] storeID = "3" -> "GreenManGaming"
       [] storeID = "7" -> "GOG"
       [] storeID = "8" -> "Origin"
       [] storeID = "11" -> "Humble Bundle"
       [] storeID = "13" -> "Uplay"
       [] storeID = "15" -> "Fanatical"
       [] storeID = "21" -> "WinGameStore"
       [] storeID = "23" -> "GameBillet"
       [] storeID = "24" -> "Voidu"
       [] storeID = "25" -> "Epic Games Store"
       [] storeID = "27" -> "Gamesplanet"
       [] storeID = "28" -> "Gamesload"
       [] storeID = "29" -> "2Game"
       [] storeID = "30" -> "IndieGala"
       [] storeID = "31" -> "Blizzard Shop"
       [] storeID = "33" -> "DLGamer"
       [] storeID = "34" -> "Noctre"
       [] storeID = "35" -> "DreamGame"]

\* STORE_NAMES[bestDeal.storeID] || `Store ${bestDeal.storeID}`
StoreName(storeID) ==
  IF storeID \in DOMAIN STORE_NAMES THEN STORE_NAMES[storeID] ELSE "Store " \o storeID

DealUrl(dealID) == "https://www.cheapshark.com/redirect?dealID=" \o dealID

\* ---- the provider's answers to GET /games?id=
\* a GameDealInfo of the provider
ProviderDeal(storeID, dealID, price, retailPrice, savings) ==
  [storeID |-> storeID, dealID |-> dealID, price |-> price,
   retailPrice |-> retailPrice, savings |-> savings]

Steam10 == ProviderDeal("1", "a", <<"1", "0">>, <<"2", "0">>, <<"5", "0", ".", "0">>)
Gog20 == ProviderDeal("7", "b", <<"2", "0">>, <<"2", "0">>, <<"0", ".", "0">>)
Other10 == ProviderDeal("99", "c", <<"1", "0">>, <<"4", "0">>, <<"7", "4", ".", "5">>)
Steam9 == ProviderDeal("1", "d", <<"9", ".", "5">>, <<"1", "0">>, <<"5", ".", "0">>)
Humble14 == ProviderDeal("11", "e", <<"1", "4">>, <<"2", "0">>, <<"3", "0", ".", "0">>)
Fanatical18 == ProviderDeal("15", "f", <<"1", "8">>, <<"2", "0">>, <<"1", "0", ".", "0">>)

Ok(deals) == [kind |-> "ok", deals |-> deals]

\* fetch rejects, the status is not 2xx, the body has no deals, or it has a list
Responses ==
  {[kind |-> "networkError", deals |-> <<>>],
   [kind |-> "httpError", deals |-> <<>>],
   [kind |-> "noDeals", deals |-> <<>>]}
  \cup {[kind |-> "ok", deals |-> d] :
          d \in {<<>>, <<Steam10>>, <<Gog20>>, <<Gog20, Steam10, Other10>>,
                 <<Other10, Steam9, Steam10>>}}

\* what a call yields: it threw, or it returned value
Threw == [threw |-> TRUE, value |-> <<>>]
Returned(v) == [threw |-> FALSE, value |-> v]

\* getGameInfo: throws when fetch rejects or the response is not ok
getGameInfo(resp) ==
  IF resp.kind \in {"networkError", "httpError"} THEN Threw
  ELSE Returned(<<resp>>)

\* getDealsForGame: [] on any error and on a body without deals, else the deals
\* with price -> salePrice and retailPrice -> normalPrice
getDealsForGame(resp) ==
  LET gameInfo == getGameInfo(resp)
  IN IF gameInfo.threw THEN Returned(<<>>)
     ELSE IF resp.kind = "noDeals" THEN Returned(<<>>)
     ELSE Returned([k \in 1..Len(resp.deals) |->
                      [storeID |-> resp.deals[k].storeID,
                       dealID |-> resp.deals[k].dealID,
                       salePrice |-> resp.deals[k].price,
                       normalPrice |-> resp.deals[k].retailPrice,
                       savings |-> resp.deals[k].savings]])

\* a comparison that lets a later deal of equal price win
CheaperOrEqual(deal, best) == parseFloat(deal.salePrice) <= parseFloat(best.salePrice)

\* price < bestPrice
Cheaper(deal, best) == parseFloat(deal.salePrice) < parseFloat(best.salePrice)

\* deals.reduce((best, deal) => price < bestPrice ? deal : best, deals[0])
RECURSIVE ReduceBest(_, _, _)
ReduceBest(deals, k, best) ==
  IF k > Len(deals) THEN best
  ELSE ReduceBest(deals, k + 1, IF Cheaper(deals[k], best) THEN deals[k] ELSE best)

BestDeal(deals) == ReduceBest(deals, 1, deals[1])

\* a target test that needs the price strictly under the target
IsAtTargetStrict(targetPrice, currentPrice) ==
  targetPrice # NULL /\ currentPrice < targetPrice

\* item.targetPrice !== null && currentPrice <= item.targetPrice
IsAtTarget(targetPrice, currentPrice) ==
  targetPrice # NULL /\ currentPrice <= targetPrice

\* item.targetPrice !== null ? item.targetPrice - currentPrice : 0, then Math.max(0, .)
Savings(targetPrice, currentPrice) ==
  MathMax0(IF targetPrice # NULL THEN targetPrice - currentPrice ELSE 0)

\* checkGamePrice: null (<<>>) without deals and on any error, else <<the result>>
\* a check without the catch: it throws when the provider gives no deals
checkGamePriceNoCatch(item, resp) ==
  IF Len(getDealsForGame(resp).value) = 0 THEN Threw ELSE Returned(<<>>)

checkGamePrice(item, resp) ==
  LET got == getDealsForGame(resp)
  IN IF got.threw THEN Returned(<<>>)
     ELSE IF Len(got.value) = 0 THEN Returned(<<>>)
     ELSE LET bestDeal == BestDeal(got.value)
              currentPrice == parseFloat(bestDeal.salePrice)
          IN Returned(<<[gameID |-> item.gameID,
                         gameTitle |-> item.gameTitle,
                         currentBestPrice |-> currentPrice,
                         currentBestStore |-> StoreName(bestDeal.storeID),
                         targetPrice |-> item.targetPrice,
                         isAtTarget |-> IsAtTarget(item.targetPrice, currentPrice),
                         savings |-> Savings(item.targetPrice, currentPrice),
                         dealUrl |-> DealUrl(bestDeal.dealID),
                         originalPrice |-> parseFloat(bestDeal.normalPrice),
                         discount |-> MathRound(parseFloat(bestDeal.savings))]>>)

\* a push that does not test the result
PushAlways(list, result) ==
  IF result = <<>> THEN Append(list, [gameID |-> NULL]) ELSE list \o result

\* if (result) { results.push(result) }
PushResult(list, result) == IF result # <<>> THEN list \o result ELSE list

\* a pacing test that also delays after the last item
DelayAfterEvery(i, length) == i < length

\* if (i < wishlist.length - 1): i is the 0-based loop index
DelayFollows(i, length) == i < length - 1

Event(ev, i, total, kind, deals) ==
  [ev |-> ev, i |-> i, total |-> total, kind |-> kind, deals |-> deals]

\* the wishlists handed to checkAllPrices: tracked games, their targets set by
\* updateTargetPrice
CheckTargets == {NULL, 100, 150}
WishlistOf(targets) ==
  [k \in 1..Len(targets) |->
     WithTargetPrice(NewItem(ItemInput(k, NULL), 0), targets[k])]
Wishlists ==
  {WishlistOf(t) : t \in UNION {[1..n -> CheckTargets] : n \in 0..MaxWishlist}}

CheckIdle ==
  /\ wishlist = <<>>
  /\ hasProgress = FALSE
  /\ cpc = "idle"
  /\ ci = 0
  /\ results = <<>>
  /\ inFlight = 0
  /\ trace = <<>>
  /\ fetched = <<>>

CheckInit ==
  /\ wishlist \in Wishlists
  /\ hasProgress \in BOOLEAN
  /\ cpc = "idle"
  /\ ci = 0
  /\ results = <<>>
  /\ inFlight = 0
  /\ trace = <<>>
  /\ fetched = <<>>

\* the call: const results = []; i = 0
checkAllPrices ==
  /\ cpc = "idle"
  /\ cpc' = "loop"
  /\ ci' = 0
  /\ results' = <<>>
  /\ UNCHANGED <<wishlist, hasProgress, inFlight, trace, fetched>>
  /\ UNCHANGED <<pageVars, wishlistVars, reportVars, mailVars, uiVars>>

\* the loop test; in the body onProgress?.(i + 1, length), then checkGamePrice(item)
\* starts the provider fetch
LoopTest ==
  /\ cpc = "loop"
  /\ IF ci < Len(wishlist)
     THEN /\ trace' = (IF hasProgress
                       THEN Append(trace, Event("progress", ci + 1, Len(wishlist), "", 0))
                       ELSE trace)
                      \o <<Event("fetch", ci + 1, Len(wishlist), "", 0)>>
          /\ inFlight' = inFlight + 1
          /\ cpc' = "fetching"
     ELSE /\ cpc' = "done"
          /\ UNCHANGED <<trace, inFlight>>
  /\ UNCHANGED <<wishlist, hasProgress, ci, results, fetched>>
  /\ UNCHANGED <<pageVars, wishlistVars, reportVars, mailVars, uiVars>>

\* the fetch settles and checkGamePrice returns; the result is pushed; the pacing
\* timer starts when another item follows
FetchSettles ==
  /\ cpc = "fetching"
  /\ \E resp \in Responses :
       LET outcome == checkGamePrice(wishlist[ci + 1], resp)
       IN /\ inFlight' = inFlight - 1
          /\ fetched' = getDealsForGame(resp).value
          /\ trace' = Append(trace, Event("settle", ci + 1, Len(wishlist),
                                          resp.kind, Len(resp.deals)))
          /\ IF outcome.threw
             THEN /\ cpc' = "rejected"
                  /\ UNCHANGED <<ci, results>>
             ELSE /\ results' = PushResult(results, outcome.value)
                  /\ IF DelayFollows(ci, Len(wishlist))
                     THEN cpc' = "delay" /\ ci' = ci
                     ELSE cpc' = "loop" /\ ci' = ci + 1
  /\ UNCHANGED <<wishlist, hasProgress>>
  /\ UNCHANGED <<pageVars, wishlistVars, reportVars, mailVars, uiVars>>

\* setTimeout(resolve, 200) fires
DelayElapsed ==
  /\ cpc = "delay"
  /\ trace' = Append(trace, Event("delay", ci + 1, Len(wishlist), "", 0))
  /\ ci' = ci + 1
  /\ cpc' = "loop"
  /\ UNCHANGED <<wishlist, hasProgress, results, inFlight, fetched>>
  /\ UNCHANGED <<pageVars, wishlistVars, reportVars, mailVars, uiVars>>

\* ============================================================= deal report
\* an insertion that puts a result before the results of equal discount
InsertBeforeEqual(sorted, x) ==
  LET before == {k \in 1..Len(sorted) : sorted[k].discount > x.discount}
  IN SubSeq(sorted, 1, Cardinality(before)) \o <<x>>
       \o SubSeq(sorted, Cardinality(before) + 1, Len(sorted))

\* the place sort((a, b) => b.discount - a.discount) gives x among results that
\* came before it: after every result whose discount is not smaller (stable)
InsertByDiscount(sorted, x) ==
  LET before == {k \in 1..Len(sorted) : sorted[k].discount >= x.discount}
  IN SubSeq(sorted, 1, Cardinality(before)) \o <<x>>
       \o SubSeq(sorted, Cardinality(before) + 1, Len(sorted))

RECURSIVE SortByDiscount(_)
SortByDiscount(list) ==
  IF list = <<>> THEN <<>>
  ELSE InsertByDiscount(SortByDiscount(SubSeq(list, 1, Len(list) - 1)), list[Len(list)])

\* reduce((sum, game) => sum + (game.originalPrice - game.currentBestPrice), 0)
RECURSIVE TotalSavings(_)
TotalSavings(games) ==
  IF games = <<>> THEN 0
  ELSE TotalSavings(SubSeq(games, 1, Len(games) - 1))
         + (games[Len(games)].originalPrice - games[Len(games)].currentBestPrice)

generateDealReport(list, t) ==
  LET gamesWithDeals == SortByDiscount(SelectSeq(list, LAMBDA r : r.discount > 0))
  IN [games |-> [k \in 1..Len(gamesWithDeals) |->
                   [title |-> gamesWithDeals[k].gameTitle,
                    currentPrice |-> gamesWithDeals[k].currentBestPrice,
                    originalPrice |-> gamesWithDeals[k].originalPrice,
                    discount |-> gamesWithDeals[k].discount,
                    store |-> gamesWithDeals[k].currentBestStore,
                    dealUrl |-> gamesWithDeals[k].dealUrl]],
      totalSavings |-> TotalSavings(gamesWithDeals),
      generatedAt |-> t]

\* the results handed to generateDealReport: what checkGamePrice returns for the
\* k-th game of a wishlist, by the deal the provider has for it
ReportDeals == {Gog20, Fanatical18, Humble14, Steam10}
ResultsOf(deals) ==
  [k \in 1..Len(deals) |->
     checkGamePrice(WishlistOf([j \in 1..Len(deals) |-> NULL])[k],
                    Ok(<<deals[k]>>)).value[1]]
ResultLists ==
  {ResultsOf(d) : d \in UNION {[1..n -> ReportDeals] : n \in 0..MaxResults}}

ReportIdle ==
  /\ reportInput = <<>>
  /\ report = <<>>

ReportInit ==
  /\ reportInput \in ResultLists
  /\ report = <<>>

generateDealReportCall ==
  /\ report = <<>>
  /\ report' = <<generateDealReport(reportInput, now)>>
  /\ UNCHANGED reportInput
  /\ UNCHANGED <<pageVars, wishlistVars, checkVars, mailVars, uiVars>>

\* ==================================================================== mail
\* A recipient address is pad ordinary characters followed by text.
EmailChars == {"a", "@", ".", " "}
Address(pad, text) == [pad |-> pad, text |-> text]
Addresses ==
  {Address(pad, text) :
     pad \in {0, MaxEmailLength + 1 - MaxEmailLen},
     text \in UNION {[1..n -> EmailChars] : n \in 0..MaxEmailLen}}

\* email.length
EmailLength(email) == email.pad + Len(email.text)

\* [^\s@]
NotSpaceNorAt(c) == c \notin {" ", "@"}

\* /^[^\s@]+@[^\s@]+\.[^\s@]+$/.test(email)
emailRegexTest(email) ==
  LET text == email.text
      n == Len(text)
  IN \E at \in 1..n, dot \in 1..n :
       /\ text[at] = "@"
       /\ email.pad + (at - 1) >= 1
       /\ \A j \in 1..(at - 1) : NotSpaceNorAt(text[j])
       /\ text[dot] = "."
       /\ dot - at >= 2
       /\ \A j \in (at + 1)..(dot - 1) : NotSpaceNorAt(text[j])
       /\ n - dot >= 1
       /\ \A j \in (dot + 1)..n : NotSpaceNorAt(text[j])

\* a validation without the length limit
isValidEmailAnyLength(email) == emailRegexTest(email)

isValidEmail(email) == emailRegexTest(email) /\ EmailLength(email) <= MaxEmailLength

\* a configuration test that looks at the service id only
isEmailConfiguredServiceOnly == EMAILJS_SERVICE_ID # "demo"

isEmailConfigured ==
  /\ EMAILJS_SERVICE_ID # "demo"
  /\ EMAILJS_TEMPLATE_ID # "demo"
  /\ EMAILJS_PUBLIC_KEY # "demo"

\* how the promise of sendEmail settles
Resolved(success, text) ==
  [state |-> "resolved", value |-> [success |-> success, message |-> text]]
Rejected(error) == [state |-> "rejected", value |-> [error |-> error]]

\* a catch block that throws the error again
CatchRethrows(error) == Rejected(error)

\* catch (error) { logger.error(...); return { success: false, message: ... } }
Catch(error) == Resolved(FALSE, <<"Error al enviar email">>)

NoError == "none"
ImportErrors == {"Failed to fetch dynamically imported module"}
SendErrors == {"Network Error", "The Public Key is invalid"}

MailIdle ==
  /\ EMAILJS_SERVICE_ID = "demo"
  /\ EMAILJS_TEMPLATE_ID = "demo"
  /\ EMAILJS_PUBLIC_KEY = "demo"
  /\ to_email = Address(0, <<>>)
  /\ mpc = "idle"
  /\ mailResult = [success |-> FALSE, message |-> <<>>]
  /\ importCalls = 0
  /\ sendCalls = 0
  /\ mailVia = "none"
  /\ mailError = NoError

MailInit ==
  /\ EMAILJS_SERVICE_ID \in {"demo", "service_1"}
  /\ EMAILJS_TEMPLATE_ID \in {"demo", "template_1"}
  /\ EMAILJS_PUBLIC_KEY \in {"demo", "key_1"}
  /\ to_email \in Addresses
  /\ mpc = "idle"
  /\ mailResult = [success |-> FALSE, message |-> <<>>]
  /\ importCalls = 0
  /\ sendCalls = 0
  /\ mailVia = "none"
  /\ mailError = NoError

Settle(outcome) ==
  /\ mpc' = outcome.state
  /\ mailResult' = outcome.value

\* sendEmail up to its first await
SendEmailBody(via) ==
  /\ mpc = "idle"
  /\ mailVia' = via
  /\ IF ~isValidEmail(to_email)
     THEN /\ Settle(Resolved(FALSE, <<"Email inválido">>))
          /\ UNCHANGED importCalls
     ELSE IF ~isEmailConfigured
     THEN /\ Settle(Resolved(TRUE, <<"Modo demo: El email se enviaría a ", to_email>>))
          /\ UNCHANGED importCalls
     ELSE /\ mpc' = "import"
          /\ importCalls' = importCalls + 1
          /\ UNCHANGED mailResult
  /\ UNCHANGED <<mailEnvVars, to_email, sendCalls, mailError>>
  /\ UNCHANGED <<pageVars, wishlistVars, checkVars, reportVars, uiVars>>

sendEmail == SendEmailBody("sendEmail")

\* the subject and the message are formatted, then sendEmail is called
sendPriceAlertEmail == SendEmailBody("sendPriceAlertEmail")
sendDealReportEmail == SendEmailBody("sendDealReportEmail")

\* await import('@emailjs/browser') settles; on success emailjs.send is called
ImportSettles ==
  /\ mpc = "import"
  /\ \/ /\ mpc' = "send"
        /\ sendCalls' = sendCalls + 1
        /\ UNCHANGED <<mailResult, mailError>>
     \/ \E error \in ImportErrors :
          /\ Settle(Catch(error))
          /\ mailError' = error
          /\ UNCHANGED sendCalls
  /\ UNCHANGED <<mailEnvVars, to_email, importCalls, mailVia>>
  /\ UNCHANGED <<pageVars, wishlistVars, checkVars, reportVars, uiVars>>

\* await emailjs.send(...) settles
SendSettles ==
  /\ mpc = "send"
  /\ \/ /\ Settle(Resolved(TRUE, <<"Email enviado correctamente">>))
        /\ UNCHANGED mailError
     \/ \E error \in SendErrors :
          /\ Settle(Catch(error))
          /\ mailError' = error
  /\ UNCHANGED <<mailEnvVars, to_email, importCalls, sendCalls, mailVia>>
  /\ UNCHANGED <<pageVars, wishlistVars, checkVars, reportVars, uiVars>>

\* ======================================================= EmailReportModal
\* items handed to checkAllPrices by handleSend
MaxModalItems == 2

\* calls of handleSend that may be in flight besides the latest one
MaxEarlier == 1

\* the addresses typed into the modal: none, a valid one, one without a dot
ModalEmails ==
  {Address(0, <<>>), Address(0, <<"a", "@", "a", ".", "a">>),
   Address(0, <<"a", "@", "a">>)}

\* a filter that keeps every result with a target, reached or not
getTargetReachedAlertsAnyTarget(list) ==
  LET reached == SelectSeq(list, LAMBDA r : r.targetPrice # NULL)
  IN [k \in 1..Len(reached) |->
        [gameTitle |-> reached[k].gameTitle,
         currentPrice |-> reached[k].currentBestPrice,
         targetPrice |-> reached[k].targetPrice,
         savings |-> reached[k].savings,
         dealUrl |-> reached[k].dealUrl]]

\* getTargetReachedAlerts: the results at their target, as alerts
getTargetReachedAlerts(list) ==
  LET reached == SelectSeq(list, LAMBDA r : r.isAtTarget /\ r.targetPrice # NULL)
  IN [k \in 1..Len(reached) |->
        [gameTitle |-> reached[k].gameTitle,
         currentPrice |-> reached[k].currentBestPrice,
         targetPrice |-> reached[k].targetPrice,
         savings |-> reached[k].savings,
         dealUrl |-> reached[k].dealUrl]]

NoMessage == <<"">>
NoAlerts == <<"Ningún juego ha alcanzado tu precio objetivo">>

UiIdle ==
  /\ status = "idle"
  /\ message = NoMessage
  /\ reportType = "deals"
  /\ hpc = "idle"
  /\ pageError = "null"
  /\ alerts = <<>>
  /\ isOpen = FALSE
  /\ earlier = <<>>

\* the modal opened over a wishlist, an address typed, a report type chosen
ModalInit ==
  /\ wishlist \in {w \in Wishlists : Len(w) <= MaxModalItems}
  /\ hasProgress = TRUE
  /\ cpc = "idle"
  /\ ci = 0
  /\ results = <<>>
  /\ inFlight = 0
  /\ trace = <<>>
  /\ fetched = <<>>
  /\ MailInit
  /\ to_email \in ModalEmails
  /\ status = "idle"
  /\ message = NoMessage
  /\ reportType \in {"deals", "alerts"}
  /\ hpc = "idle"
  /\ pageError = "null"
  /\ alerts = <<>>
  /\ isOpen = TRUE
  /\ earlier = <<>>

\* a call that has not returned: it awaits checkAllPrices or the send
InFlight(pc) == pc \in {"check", "send"}

\* handleSend up to the call of checkAllPrices; the button is shown in status idle
\* and disabled without an address or without items. The variables of the call
\* are those of the latest call: a call still in flight moves to earlier
handleSend ==
  /\ isOpen
  /\ status = "idle"
  /\ earlier' = (IF InFlight(hpc) THEN Append(earlier, hpc) ELSE earlier)
  /\ Len(earlier') <= MaxEarlier
  /\ EmailLength(to_email) > 0
  /\ Len(wishlist) > 0
  /\ status' = "checking"
  /\ hpc' = "check"
  /\ cpc' = "idle"
  /\ ci' = 0
  /\ results' = <<>>
  /\ inFlight' = 0
  /\ trace' = <<>>
  /\ fetched' = <<>>
  /\ mpc' = "idle"
  /\ mailResult' = [success |-> FALSE, message |-> <<>>]
  /\ importCalls' = 0
  /\ sendCalls' = 0
  /\ mailVia' = "none"
  /\ mailError' = NoError
  /\ alerts' = <<>>
  /\ UNCHANGED <<wishlist, hasProgress, mailEnvVars, to_email, message, reportType,
                 pageError, isOpen>>
  /\ UNCHANGED <<pageVars, wishlistVars, reportVars>>

\* const results = await checkAllPrices(items, ...)
CheckCall ==
  /\ hpc = "check"
  /\ checkAllPrices

\* checkAllPrices has returned: setStatus('sending'), then the alerts or the report
ChecksDone ==
  /\ hpc = "check"
  /\ cpc = "done"
  /\ IF reportType = "alerts"
     THEN /\ alerts' = getTargetReachedAlerts(results)
          /\ IF Len(alerts') = 0
             THEN /\ status' = "error"
                  /\ message' = NoAlerts
                  /\ hpc' = "done"
             ELSE /\ status' = "sending"
                  /\ hpc' = "send"
                  /\ UNCHANGED message
          /\ UNCHANGED reportVars
     ELSE /\ reportInput' = results
          /\ report' = <<generateDealReport(results, now)>>
          /\ status' = "sending"
          /\ hpc' = "send"
          /\ UNCHANGED <<message, alerts>>
  /\ UNCHANGED <<reportType, pageError, isOpen, earlier>>
  /\ UNCHANGED <<pageVars, wishlistVars, checkVars, mailVars>>

\* result = await sendPriceAlertEmail(...) / sendDealReportEmail(...)
SendCall ==
  /\ hpc = "send"
  /\ IF reportType = "alerts" THEN sendPriceAlertEmail ELSE sendDealReportEmail

\* the send has settled: success or error by result.success; the catch block shows
\* the error of a rejected send
SendDone ==
  /\ hpc = "send"
  /\ mpc \in {"resolved", "rejected"}
  /\ IF mpc = "resolved"
     THEN /\ status' = (IF mailResult.success THEN "success" ELSE "error")
          /\ message' = mailResult.message
     ELSE /\ status' = "error"
          /\ message' = <<mailResult.error>>
  /\ hpc' = "done"
  /\ UNCHANGED <<reportType, pageError, alerts, isOpen, earlier>>
  /\ UNCHANGED <<pageVars, wishlistVars, checkVars, reportVars, mailVars>>

\* the retry button of the error view: setStatus('idle')
retry ==
  /\ isOpen
  /\ status = "error"
  /\ status' = "idle"
  /\ UNCHANGED <<message, reportType, hpc, pageError, alerts, isOpen, earlier>>
  /\ UNCHANGED <<pageVars, wishlistVars, checkVars, reportVars, mailVars>>

\* the X button, and the close and cancel buttons of the success and error views:
\* setStatus('idle'); setMessage(''); onClose()
handleClose ==
  /\ isOpen
  /\ status' = "idle"
  /\ message' = NoMessage
  /\ isOpen' = FALSE
  /\ UNCHANGED <<reportType, hpc, pageError, alerts, earlier>>
  /\ UNCHANGED <<pageVars, wishlistVars, checkVars, reportVars, mailVars>>

\* the page's report button: setShowEmailModal(true)
openEmailModal ==
  /\ ~isOpen
  /\ isOpen' = TRUE
  /\ UNCHANGED <<status, message, reportType, hpc, pageError, alerts, earlier>>
  /\ UNCHANGED <<pageVars, wishlistVars, checkVars, reportVars, mailVars>>

\* s without its k-th element
RemoveAt(s, k) == SubSeq(s, 1, k - 1) \o SubSeq(s, k + 1, Len(s))

\* some item has a target, so a pass may find a game at its target
MayAlert == \E k \in 1..Len(wishlist) : wishlist[k].targetPrice # NULL

\* how sendEmail may settle for the address typed and the configuration
SendOutcomes ==
  IF ~isValidEmail(to_email) THEN {Resolved(FALSE, <<"Email inválido">>)}
  ELSE IF ~isEmailConfigured
  THEN {Resolved(TRUE, <<"Modo demo: El email se enviaría a ", to_email>>)}
  ELSE {Resolved(TRUE, <<"Email enviado correctamente">>)}
         \cup {Catch(error) : error \in ImportErrors \cup SendErrors}

\* checkAllPrices returns to an earlier call: setStatus('sending'), or the error
\* of an alerts report without alerts
EarlierChecksDone(k) ==
  /\ earlier[k] = "check"
  /\ \/ /\ status' = "sending"
        /\ earlier' = [earlier EXCEPT ![k] = "send"]
        /\ reportType = "alerts" => MayAlert
        /\ UNCHANGED message
     \/ /\ reportType = "alerts"
        /\ status' = "error"
        /\ message' = NoAlerts
        /\ earlier' = RemoveAt(earlier, k)
  /\ UNCHANGED <<reportType, hpc, pageError, alerts, isOpen>>
  /\ UNCHANGED <<pageVars, wishlistVars, checkVars, reportVars, mailVars>>

\* the send of an earlier call settles: success or error by result.success
EarlierSendDone(k) ==
  /\ earlier[k] = "send"
  /\ \E outcome \in SendOutcomes :
       /\ status' = (IF outcome.value.success THEN "success" ELSE "error")
       /\ message' = outcome.value.message
  /\ earlier' = RemoveAt(earlier, k)
  /\ UNCHANGED <<reportType, hpc, pageError, alerts, isOpen>>
  /\ UNCHANGED <<pageVars, wishlistVars, checkVars, reportVars, mailVars>>

\* ================================================= UserPreferencesProvider
\* setDoc calls of the preferences that may be pending at once
MaxPrefWrites == 1

DEFAULT_PREFERENCES ==
  [favoriteStores |-> <<>>, minPrice |-> NULL, maxPrice |-> NULL,
   preferredCurrency |-> "EUR", preferredLanguage |-> "es", minDiscount |-> NULL,
   sortBy |-> "Deal Rating", showOnlyWishlisted |-> FALSE]

\* the updates of the settings form (handleSavePreferences), and two partial ones
PrefUpdates ==
  [favoriteStores : {<<>>, <<"1">>}, minPrice : {NULL, 10}, maxPrice : {NULL},
   sortBy : {"Deal Rating", "Price"}, preferredCurrency : {"EUR", "USD"},
   preferredLanguage : {"es"}]
  \cup [minDiscount : {50}] \cup [showOnlyWishlisted : {TRUE}]

\* a spread that ignores the updates
SpreadKeepsBase(base, updates) == base

\* { ...base, ...updates }
Spread(base, updates) ==
  [f \in DOMAIN base |-> IF f \in DOMAIN updates THEN updates[f] ELSE base[f]]

\* JSON.stringify(prefs) and JSON.parse(text): strings, numbers, null, booleans and
\* arrays of strings are written as they are
StringifyPrefs(prefs) == [json |-> prefs]
ParsePrefs(text) == text.json

loadLocalPreferences ==
  IF localPrefs # NoKey
  THEN Spread(DEFAULT_PREFERENCES, ParsePrefs(localPrefs[1]))
  ELSE DEFAULT_PREFERENCES

\* localStorage.setItem throws where storage is full or disabled; the error is
\* logged and swallowed
saveLocalPreferences(prefs) ==
  localPrefs' = IF storageOK THEN Stored(StringifyPrefs(prefs)) ELSE localPrefs

\* user && isFirebaseConfigured && db
PrefsInCloud == user # NoUser /\ isFirebaseConfigured /\ db

\* the settings document of the user: <<>> when it does not exist
NoPrefsDoc == <<>>

PrefIdle ==
  /\ preferences = DEFAULT_PREFERENCES
  /\ prefsLoading = TRUE
  /\ localPrefs = NoKey
  /\ cloudPrefs = NoPrefsDoc
  /\ ppc = "idle"
  /\ prefWrites = <<>>
  /\ lastPrefOp = "none"
  /\ lastPrefWrite = "none"

\* the provider before its effect has run: any environment, a signed-in user, the
\* demo user or none, a local copy and a settings document left by an earlier
\* session or none
PrefInit ==
  /\ isFirebaseConfigured \in BOOLEAN
  /\ auth \in BOOLEAN
  /\ db \in BOOLEAN
  /\ storageOK \in BOOLEAN
  /\ (~isFirebaseConfigured => ~auth)
  /\ (db => auth)
  /\ user \in (IF auth THEN Users ELSE {}) \cup {NoUser, DEMO_USER}
  /\ isDemo = (user = DEMO_USER \/ (user = NoUser /\ ~isFirebaseConfigured))
  /\ fbUser = (IF user \in Users THEN user ELSE NoUser)
  /\ authPending = FALSE
  /\ mounted = FALSE
  /\ items = <<>>
  /\ captured = <<>>
  /\ loading = TRUE
  /\ localStore = NoKey
  /\ cloud = [u \in Users |-> NoDocs]
  /\ listeners = <<>>
  /\ snapQueue = <<>>
  /\ now = 0
  /\ lastCall = NoCall
  /\ tracked = {}
  /\ calls = 0
  /\ preferences = DEFAULT_PREFERENCES
  /\ prefsLoading = TRUE
  /\ localPrefs \in {NoKey, Stored(StringifyPrefs(Spread(DEFAULT_PREFERENCES,
                                                        [minDiscount |-> 50])))}
  /\ cloudPrefs \in {NoPrefsDoc,
                     <<Spread(DEFAULT_PREFERENCES, [showOnlyWishlisted |-> TRUE])>>}
  /\ ppc = "idle"
  /\ prefWrites = <<>>
  /\ lastPrefOp = "none"
  /\ lastPrefWrite = "none"

\* the effect on [user]: defaults without a user, the local copy without a cloud
\* backend, else getDoc is awaited
loadPreferences ==
  /\ ppc = "idle"
  /\ IF user = NoUser
     THEN /\ preferences' = DEFAULT_PREFERENCES
          /\ prefsLoading' = FALSE
          /\ ppc' = "loaded"
     ELSE IF ~isFirebaseConfigured \/ ~db
     THEN /\ preferences' = loadLocalPreferences
          /\ prefsLoading' = FALSE
          /\ ppc' = "loaded"
     ELSE /\ ppc' = "getDoc"
          /\ UNCHANGED <<preferences, prefsLoading>>
  /\ UNCHANGED <<localPrefs, cloudPrefs, prefWrites, lastPrefOp, lastPrefWrite>>
  /\ UNCHANGED <<wishlistVars, checkVars, reportVars, mailVars, uiVars, limiterVars>>

\* getDoc settles: the document over the defaults, the defaults when it does not
\* exist, the local copy when getDoc rejects; finally setLoading(false)
GetDocSettles ==
  /\ ppc = "getDoc"
  /\ \E ok \in BOOLEAN :
       preferences' = IF ~ok THEN loadLocalPreferences
                      ELSE IF cloudPrefs # NoPrefsDoc
                      THEN Spread(DEFAULT_PREFERENCES, cloudPrefs[1])
                      ELSE DEFAULT_PREFERENCES
  /\ prefsLoading' = FALSE
  /\ ppc' = "loaded"
  /\ UNCHANGED <<localPrefs, cloudPrefs, prefWrites, lastPrefOp, lastPrefWrite>>
  /\ UNCHANGED <<wishlistVars, checkVars, reportVars, mailVars, uiVars, limiterVars>>

\* setPreferences(newPreferences); saveLocalPreferences(newPreferences); with a
\* cloud backend setDoc is awaited
WritePreferences(op, newPreferences) ==
  /\ ppc # "idle"
  /\ preferences' = newPreferences
  /\ saveLocalPreferences(newPreferences)
  /\ IF PrefsInCloud
     THEN /\ Len(prefWrites) < MaxPrefWrites
          /\ prefWrites' = Append(prefWrites, newPreferences)
     ELSE UNCHANGED prefWrites
  /\ lastPrefOp' = op
  /\ UNCHANGED <<prefsLoading, cloudPrefs, ppc, lastPrefWrite>>
  /\ UNCHANGED <<wishlistVars, checkVars, reportVars, mailVars, uiVars, limiterVars>>

updatePreferences(updates) == WritePreferences("update", Spread(preferences, updates))

resetPreferences == WritePreferences("reset", DEFAULT_PREFERENCES)

\* setDoc settles: the document is written, or the error is logged and swallowed
PrefWriteSettles ==
  /\ prefWrites # <<>>
  /\ \E ok \in BOOLEAN :
       IF ok
       THEN /\ cloudPrefs' = <<Head(prefWrites)>>
            /\ lastPrefWrite' = "ok"
       ELSE /\ lastPrefWrite' = "failed"
            /\ UNCHANGED cloudPrefs
  /\ prefWrites' = Tail(prefWrites)
  /\ UNCHANGED <<preferences, prefsLoading, localPrefs, ppc, lastPrefOp>>
  /\ UNCHANGED <<wishlistVars, checkVars, reportVars, mailVars, uiVars, limiterVars>>

\* ============================================================ RateLimiter
\* new RateLimiter(windowMs, maxRequests), and the last instant of the clock
windowMs == 2
maxRequests == 2
MaxNow == 3

Keys == {"search", "api"}

\* a filter that forgets a timestamp one millisecond early
ValidTimestampsShortWindow(ts, t) == SelectSeq(ts, LAMBDA x : t - x < windowMs - 1)

\* timestamps.filter(t => now - t < this.windowMs)
ValidTimestamps(ts, t) == SelectSeq(ts, LAMBDA x : t - x < windowMs)

NoLimiterCall == [op |-> "none", key |-> "", returned |-> FALSE]

\* a limiter just constructed: the map is empty (get(key) || [])
LimiterInit ==
  /\ timestamps = [k \in Keys |-> <<>>]
  /\ clock = 0
  /\ admitted = [k \in Keys |-> <<>>]
  /\ lastLimiterCall = NoLimiterCall

\* Date.now() advances
ClockTick ==
  /\ clock < MaxNow
  /\ clock' = clock + 1
  /\ UNCHANGED <<timestamps, admitted, lastLimiterCall>>
  /\ UNCHANGED <<wishlistVars, checkVars, reportVars, mailVars, uiVars, prefVars>>

isAllowed(key) ==
  LET validTimestamps == ValidTimestamps(timestamps[key], clock)
  IN /\ IF Len(validTimestamps) >= maxRequests
        THEN /\ lastLimiterCall' = [op |-> "isAllowed", key |-> key, returned |-> FALSE]
             /\ UNCHANGED <<timestamps, admitted>>
        ELSE /\ timestamps' = [timestamps EXCEPT ![key] = Append(validTimestamps, clock)]
             /\ admitted' = [admitted EXCEPT ![key] = Append(@, clock)]
             /\ lastLimiterCall' = [op |-> "isAllowed", key |-> key, returned |-> TRUE]
     /\ UNCHANGED clock
     /\ UNCHANGED <<wishlistVars, checkVars, reportVars, mailVars, uiVars, prefVars>>

\* reset(key): this.timestamps.delete(key)
reset(key) ==
  /\ timestamps' = [timestamps EXCEPT ![key] = <<>>]
  /\ admitted' = [admitted EXCEPT ![key] = <<>>]
  /\ lastLimiterCall' = [op |-> "reset", key |-> key, returned |-> FALSE]
  /\ UNCHANGED clock
  /\ UNCHANGED <<wishlistVars, checkVars, reportVars, mailVars, uiVars, prefVars>>

\* ========================================================== specifications
\* the wishlist store of an unconfigured page load, nothing called
WishlistIdle ==
  /\ WInit
  /\ ~isFirebaseConfigured
  /\ ~storageOK

Init == WInit /\ CheckIdle /\ ReportIdle /\ MailIdle /\ UiIdle /\ PrefIdle /\ LimiterInit

Next ==
  \/ Mount
  \/ Tick
  \/ loginAsDemo
  \/ \E u \in Users : login(u)
  \/ onAuthStateChanged
  \/ logout
  \/ onSnapshot
  \/ onSnapshotError
  \/ \E g \in Games, tp \in AddTargets : addToWishlist(g, tp)
  \/ \E g \in Games : removeFromWishlist(g)
  \/ \E g \in Games, tp \in UpdateTargets : updateTargetPrice(g, tp)

\* the wishlist store: sessions, handler calls, snapshots
Spec == Init /\ [][Next]_vars

NextBatch ==
  \/ Mount
  \/ Tick
  \/ loginAsDemo
  \/ \E u \in Users : login(u)
  \/ onAuthStateChanged
  \/ logout
  \/ onSnapshot
  \/ onSnapshotError
  \/ \E g \in Games, tp \in AddTargets : addToWishlist(g, tp)
  \/ \E g \in Games : removeFromWishlist(g)
  \/ \E g \in Games, tp \in UpdateTargets : updateTargetPrice(g, tp)
  \/ \E g \in Games, tp \in AddTargets : HandlerThenCallAgain(addToWishlistBody(g, tp))
  \/ \E g \in Games : HandlerThenCallAgain(removeFromWishlistBody(g))
  \/ \E g \in Games, tp \in UpdateTargets :
       HandlerThenCallAgain(updateTargetPriceBody(g, tp))

\* the wishlist store used by event handlers that make several calls
SpecBatch == Init /\ [][NextBatch]_vars

InitCheck == WishlistIdle /\ CheckInit /\ ReportIdle /\ MailIdle /\ UiIdle /\ PrefIdle /\ LimiterInit

NextCheck ==
  \/ checkAllPrices
  \/ LoopTest
  \/ FetchSettles
  \/ DelayElapsed

\* one run of checkAllPrices over a wishlist
SpecCheck == InitCheck /\ [][NextCheck]_vars

\* the same run where the event loop runs every continuation that is ready, the
\* pacing timer fires and every provider fetch settles
SpecCheckLive ==
  SpecCheck /\ WF_vars(LoopTest) /\ WF_vars(FetchSettles) /\ WF_vars(DelayElapsed)

InitReport == WishlistIdle /\ CheckIdle /\ ReportInit /\ MailIdle /\ UiIdle /\ PrefIdle /\ LimiterInit

NextReport == generateDealReportCall

\* one call of generateDealReport
SpecReport == InitReport /\ [][NextReport]_vars

InitEmail == WishlistIdle /\ CheckIdle /\ ReportIdle /\ MailInit /\ UiIdle /\ PrefIdle /\ LimiterInit

NextEmail ==
  \/ sendEmail
  \/ sendPriceAlertEmail
  \/ sendDealReportEmail
  \/ ImportSettles
  \/ SendSettles

\* one call of sendEmail, directly or through a formatter
SpecEmail == InitEmail /\ [][NextEmail]_vars

InitModal == WishlistIdle /\ ReportIdle /\ ModalInit /\ PrefIdle /\ LimiterInit

NextModal ==
  \/ handleSend
  \/ CheckCall
  \/ LoopTest
  \/ FetchSettles
  \/ DelayElapsed
  \/ ChecksDone
  \/ SendCall
  \/ ImportSettles
  \/ SendSettles
  \/ SendDone
  \/ retry

\* the report modal: handleSend over a wishlist, and the retry button
SpecModal == InitModal /\ [][NextModal]_vars

\* the modal over one tracked game or two, an address typed, the transport
\* configured or not by its service id
GateInputs ==
  /\ wishlist \in {WishlistOf(<<100>>), WishlistOf(<<NULL, 100>>)}
  /\ EmailLength(to_email) > 0
  /\ EMAILJS_TEMPLATE_ID = "template_1"
  /\ EMAILJS_PUBLIC_KEY = "key_1"

InitGate ==
  WishlistIdle /\ ReportIdle /\ ModalInit /\ PrefIdle /\ LimiterInit /\ GateInputs

NextGate ==
  \/ handleSend
  \/ CheckCall
  \/ LoopTest
  \/ FetchSettles
  \/ DelayElapsed
  \/ ChecksDone
  \/ SendCall
  \/ ImportSettles
  \/ SendSettles
  \/ SendDone
  \/ retry
  \/ handleClose
  \/ openEmailModal
  \/ \E k \in 1..Len(earlier) : EarlierChecksDone(k)
  \/ \E k \in 1..Len(earlier) : EarlierSendDone(k)

\* the report modal with its close button and the page's button that opens it
SpecGate == InitGate /\ [][NextGate]_vars


InitLimiter ==
  WishlistIdle /\ CheckIdle /\ ReportIdle /\ MailIdle /\ UiIdle /\ PrefIdle /\ LimiterInit

NextLimiter ==
  \/ ClockTick
  \/ \E key \in Keys : isAllowed(key)
  \/ \E key \in Keys : reset(key)

\* one RateLimiter, its calls and the clock
SpecLimiter == InitLimiter /\ [][NextLimiter]_vars


InitPrefs == PrefInit /\ CheckIdle /\ ReportIdle /\ MailIdle /\ UiIdle /\ LimiterInit

NextPrefs ==
  \/ loadPreferences
  \/ GetDocSettles
  \/ \E updates \in PrefUpdates : updatePreferences(updates)
  \/ resetPreferences
  \/ PrefWriteSettles

\* the preferences provider: its loading effect, updates, resets and cloud writes
SpecPrefs == InitPrefs /\ [][NextPrefs]_vars



\* ----------------------------------------------------------------- claims
\* the backend the session selects
ExpectedBackend ==
  IF user = NoUser THEN {}
  ELSE IF isDemo \/ ~isFirebaseConfigured \/ ~db THEN {"local"}
  ELSE {"cloud"}

\* the in-memory list shows the selected backend's state: always in local mode,
\* and in cloud mode once every snapshot of the live listener has been delivered
Settled ==
  /\ user # NoUser
  /\ \/ isDemo \/ ~isFirebaseConfigured \/ ~db
     \/ listeners = <<user>> /\ snapQueue = <<>>

EntriesOf(list, g) == SelectSeq(list, LAMBDA i : i.gameID = g)

C1_OneEntryPerTracked ==
  Settled => \A g \in Games : Len(EntriesOf(items, g)) = (IF g \in tracked THEN 1 ELSE 0)

\* what a call for game g leaves alone: in local mode the entries of the other
\* games, in cloud mode the documents of the other games and the whole list
OthersKept(g) ==
  IF ExpectedBackend = {"local"}
  THEN \A h \in Games \ {g} : EntriesOf(items', h) = EntriesOf(items, h)
  ELSE /\ items' = items
       /\ \A h \in Games \ {g} : cloud'[user][h] = cloud[user][h]

C1_RemoveStep ==
  \A g \in Games :
    (removeFromWishlist(g) /\ user # NoUser) =>
       /\ OthersKept(g)
       /\ (ExpectedBackend = {"local"} /\ ~isInWishlist(g)) => items' = items
       /\ (ExpectedBackend = {"cloud"} /\ ~cloud[user][g].exists) => cloud' = cloud

C1_AddStep ==
  \A g \in Games, tp \in AddTargets :
    (addToWishlist(g, tp) /\ user # NoUser) => OthersKept(g)

Settles == SelectSeq(trace, LAMBDA e : e.ev = "settle")

\* the settle events of the items the provider had at least one deal for
SettlesWithDeals == SelectSeq(Settles, LAMBDA e : e.kind = "ok" /\ e.deals > 0)

\* C2: checkAllPrices isolates per-item failures: an item whose fetch fails or
\* returns no deal adds no result and never aborts the run; the returned list has
\* exactly one result for every other item, in input order.
C2_IsolatesItemFailures ==
  /\ cpc # "rejected"
  /\ Len(results) = Len(SettlesWithDeals)
  /\ \A k \in 1..Len(results) :
       results[k].gameID = wishlist[SettlesWithDeals[k].i].gameID
  /\ cpc = "done" =>
       /\ Len(Settles) = Len(wishlist)
       /\ \A k \in 1..Len(Settles) : Settles[k].i = k

\* [A fails, B price 10 target 15, C price 20 target null] returned [B, C]
C2_Witness ==
  /\ cpc = "done" /\ Len(wishlist) = 3
  /\ wishlist[2].targetPrice = 150 /\ wishlist[3].targetPrice = NULL
  /\ Settles[1].kind = "networkError"
  /\ Len(results) = 2
  /\ results[1].gameID = wishlist[2].gameID /\ results[1].currentBestPrice = 100
  /\ results[1].isAtTarget /\ results[1].savings = 50
  /\ results[2].gameID = wishlist[3].gameID /\ results[2].currentBestPrice = 200
  /\ ~results[2].isAtTarget /\ results[2].savings = 0

\* the wishlist item a result was computed for
ItemOf(r) == wishlist[CHOOSE k \in 1..Len(wishlist) : wishlist[k].gameID = r.gameID]

\* C3: in every price-check result isAtTarget holds exactly when the item's target
\* is non-null and currentBestPrice <= target, and savings is
\* max(0, target - currentBestPrice), 0 without a target; an item whose target was
\* cleared by updateTargetPrice(id, null) yields isAtTarget = false and savings = 0.
C3_TargetAndSavings ==
  \A k \in 1..Len(results) :
    LET r == results[k]
        target == ItemOf(r).targetPrice
        diff == target - r.currentBestPrice
    IN /\ r.targetPrice = target
       /\ r.isAtTarget <=> (target # NULL /\ r.currentBestPrice <= target)
       /\ r.savings = (IF target = NULL THEN 0 ELSE IF diff > 0 THEN diff ELSE 0)
       /\ target = NULL => (~r.isAtTarget /\ r.savings = 0)

\* one run returned a result without target, one exactly at its target and one
\* under its target
C3_Witness ==
  /\ cpc = "done" /\ Len(results) = 3
  /\ results[1].targetPrice = NULL /\ ~results[1].isAtTarget /\ results[1].savings = 0
  /\ results[2].targetPrice = 100 /\ results[2].currentBestPrice = 100
  /\ results[2].isAtTarget /\ results[2].savings = 0
  /\ results[3].targetPrice = 150 /\ results[3].currentBestPrice = 95
  /\ results[3].isAtTarget /\ results[3].savings = 55

\* the events of a run over n items, from item i on
RECURSIVE ExpectedEvents(_, _, _)
ExpectedEvents(i, n, progress) ==
  IF i > n THEN <<>>
  ELSE (IF progress THEN << <<"progress", i>> >> ELSE <<>>)
         \o << <<"fetch", i>>, <<"settle", i>> >>
         \o (IF i < n THEN << <<"delay", i>> >> ELSE <<>>)
         \o ExpectedEvents(i + 1, n, progress)

\* C4: checkAllPrices works through the wishlist one item at a time in input
\* order: onProgress(i, total) comes before the fetch of item i, at most one fetch
\* is in flight, the fetch of item i + 1 starts only after that of item i has
\* settled and the pacing delay has elapsed, and no delay follows the last item.
C4_StrictlySequential ==
  LET expected == ExpectedEvents(1, Len(wishlist), hasProgress)
      started == Len(SelectSeq(trace, LAMBDA e : e.ev = "fetch"))
  IN /\ inFlight <= 1
     /\ inFlight = started - Len(Settles)
     /\ Len(trace) <= Len(expected)
     /\ \A k \in 1..Len(trace) :
          /\ <<trace[k].ev, trace[k].i>> = expected[k]
          /\ trace[k].total = Len(wishlist)
     /\ cpc = "done" => Len(trace) = Len(expected)

\* a run over three items with a progress callback has ended: two delays
C4_Witness ==
  /\ cpc = "done" /\ Len(wishlist) = MaxWishlist /\ hasProgress
  /\ Len(SelectSeq(trace, LAMBDA e : e.ev = "delay")) = MaxWishlist - 1
  /\ Len(SelectSeq(trace, LAMBDA e : e.ev = "progress")) = MaxWishlist
  /\ trace[Len(trace)].ev = "settle"

\* the positions of the results with a positive discount
Retained == {k \in 1..Len(reportInput) : reportInput[k].discount > 0}

\* the position in the input of the j-th game of the report
InputPos(j) ==
  CHOOSE k \in 1..Len(reportInput) : reportInput[k].gameTitle = report[1].games[j].title

RECURSIVE SumOriginalMinusCurrent(_)
SumOriginalMinusCurrent(positions) ==
  IF positions = {} THEN 0
  ELSE LET k == CHOOSE p \in positions : TRUE
       IN (reportInput[k].originalPrice - reportInput[k].currentBestPrice)
            + SumOriginalMinusCurrent(positions \ {k})

\* C5: generateDealReport returns exactly the results with discount > 0, by
\* discount descending, equal discounts in input order, and totalSavings is the sum
\* of originalPrice - currentBestPrice over the retained games.
C5_ReportFilteredSortedSummed ==
  report # <<>> =>
    LET games == report[1].games
    IN /\ Len(games) = Cardinality(Retained)
       /\ {InputPos(j) : j \in 1..Len(games)} = Retained
       /\ \A j \in 1..Len(games) :
            LET r == reportInput[InputPos(j)]
            IN /\ games[j].title = r.gameTitle
               /\ games[j].discount = r.discount
               /\ games[j].currentPrice = r.currentBestPrice
               /\ games[j].originalPrice = r.originalPrice
               /\ games[j].store = r.currentBestStore
               /\ games[j].dealUrl = r.dealUrl
       /\ \A j1, j2 \in 1..Len(games) :
            j1 < j2 =>
              \/ games[j1].discount > games[j2].discount
              \/ /\ games[j1].discount = games[j2].discount
                 /\ InputPos(j1) < InputPos(j2)
       /\ report[1].totalSavings = SumOriginalMinusCurrent(Retained)

\* discounts [30, 10, 0, 50] gave the order [50, 30, 10]
C5_Witness ==
  /\ report # <<>>
  /\ [k \in 1..Len(reportInput) |-> reportInput[k].discount] = <<30, 10, 0, 50>>
  /\ [k \in 1..Len(report[1].games) |-> report[1].games[k].discount] = <<50, 30, 10>>
  /\ report[1].totalSavings = 60 + 20 + 100

\* a recipient address of the form local@domain.tld: one "@", no white space,
\* something before the "@", and after it a "." with something on both sides;
\* at most 254 characters
WellFormedAddress(email) ==
  LET text == email.text
      ats == {k \in 1..Len(text) : text[k] = "@"}
  IN /\ Cardinality(ats) = 1
     /\ \A k \in 1..Len(text) : text[k] # " "
     /\ \A at \in ats :
          /\ email.pad + at > 1
          /\ \E dot \in (at + 2)..(Len(text) - 1) : text[dot] = "."
     /\ email.pad + Len(text) <= 254

\* C6: sendEmail, called directly or through sendPriceAlertEmail /
\* sendDealReportEmail, with an invalid recipient resolves with success = false,
\* never rejects and makes no transport call, configured or not.
C6_InvalidRecipientFails ==
  (mpc # "idle" /\ ~WellFormedAddress(to_email)) =>
     /\ mpc = "resolved"
     /\ mailResult.success = FALSE
     /\ importCalls = 0
     /\ sendCalls = 0

\* a configured transport, a recipient without a dot, through the report mailer
C6_Witness ==
  /\ mpc = "resolved" /\ mailVia = "sendDealReportEmail"
  /\ EMAILJS_SERVICE_ID # "demo" /\ EMAILJS_TEMPLATE_ID # "demo"
  /\ EMAILJS_PUBLIC_KEY # "demo"
  /\ to_email = Address(0, <<"a", "@", "a">>)
  /\ ~mailResult.success /\ importCalls = 0 /\ sendCalls = 0

\* C7: a transport failure never escapes sendEmail: when the import or the send
\* throws, the promise resolves with success = false and the same generic message,
\* and it never rejects.
C7_TransportFailureCaught ==
  /\ mpc # "rejected"
  /\ mailError # NoError =>
       /\ mpc = "resolved"
       /\ mailResult = [success |-> FALSE, message |-> <<"Error al enviar email">>]
       /\ WellFormedAddress(to_email)
       /\ "demo" \notin {EMAILJS_SERVICE_ID, EMAILJS_TEMPLATE_ID, EMAILJS_PUBLIC_KEY}

\* emailjs.send was called and threw
C7_Witness ==
  /\ mpc = "resolved" /\ sendCalls = 1
  /\ mailError = "Network Error"
  /\ ~mailResult.success

\* C8: with the mail transport unconfigured, sendEmail with a valid recipient makes
\* no transport call and resolves with success = true and a message saying that the
\* send was simulated (demo mode).
C8_UnconfiguredSimulates ==
  "demo" \in {EMAILJS_SERVICE_ID, EMAILJS_TEMPLATE_ID, EMAILJS_PUBLIC_KEY} =>
     /\ importCalls = 0
     /\ sendCalls = 0
     /\ (mpc # "idle" /\ WellFormedAddress(to_email)) =>
          /\ mpc = "resolved"
          /\ mailResult = [success |-> TRUE,
                           message |-> <<"Modo demo: El email se enviaría a ", to_email>>]

\* only the public key is missing; a valid recipient got the demo answer
C8_Witness ==
  /\ EMAILJS_SERVICE_ID # "demo" /\ EMAILJS_TEMPLATE_ID # "demo"
  /\ EMAILJS_PUBLIC_KEY = "demo"
  /\ to_email = Address(0, <<"a", "@", "a", ".", "a">>)
  /\ mpc = "resolved" /\ mailResult.success
  /\ mailVia = "sendEmail"

C9_CallWritesSelected ==
  /\ lastCall.op # "none" => lastCall.wrote = ExpectedBackend
  /\ (mounted /\ user = NoUser) => items = <<>>

C9_StoresStep ==
  /\ localStore' # localStore => ExpectedBackend = {"local"}
  /\ cloud' # cloud => ExpectedBackend = {"cloud"}

\* C9: every wishlist mutation writes to exactly the backend the session selects:
\* none without a user (and the list is empty then), only local storage in demo
\* mode or without a cloud backend, only the cloud store otherwise.
C9_WritesOnlySelectedBackend ==
  []C9_CallWritesSelected /\ [][C9_StoresStep]_vars

\* a cloud-mode add was written to the cloud while local storage holds a list
C9_Witness ==
  /\ lastCall.op = "add" /\ lastCall.wrote = {"cloud"} /\ ~lastCall.rejected
  /\ localStore # NoKey
  /\ \E g \in Games : cloud[user][g].exists

C10_Frame(g, tp) ==
  IF ExpectedBackend = {"local"}
  THEN /\ Len(items') = Len(items)
       /\ \A k \in 1..Len(items) :
            /\ items'[k].gameID = items[k].gameID
            /\ items'[k].targetPrice = (IF items[k].gameID = g THEN tp
                                        ELSE items[k].targetPrice)
            /\ \A f \in {"id", "gameTitle", "steamAppID", "thumb", "currentBestPrice",
                          "addedAt", "lastChecked"} : items'[k][f] = items[k][f]
  ELSE /\ items' = items
       /\ \A h \in Games \ {g} : cloud'[user][h] = cloud[user][h]
       /\ cloud'[user][g].exists
       /\ \A f \in {"gameID", "gameTitle", "steamAppID", "thumb", "currentBestPrice",
                     "addedAt", "lastChecked"} : cloud'[user][g][f] = cloud[user][g][f]
       /\ cloud'[user][g].targetPrice = (IF lastCall'.rejected
                                         THEN cloud[user][g].targetPrice ELSE tp)

\* C10: updateTargetPrice(gameID, price | null) on a tracked game changes only that
\* item's targetPrice; its other fields, the other items, the length and the order
\* stay, and with null the item stays tracked with targetPrice = null.
C10_UpdateChangesOnlyTarget ==
  [][\A g \in Games, tp \in UpdateTargets :
       (updateTargetPrice(g, tp) /\ user # NoUser /\ g \in tracked) => C10_Frame(g, tp)]_vars

\* a local update has cleared the target of one of two tracked games
C10_Witness ==
  /\ user # NoUser /\ ExpectedBackend = {"local"} /\ lastCall.op = "update"
  /\ Len(items) = NumGames /\ tracked = Games
  /\ items[1].targetPrice = NULL /\ items[2].targetPrice = 10
  /\ items[1].addedAt = 0 /\ items[2].addedAt = 0

\* the entry of game g in a list
EntryOf(list, g) == list[CHOOSE k \in 1..Len(list) : list[k].gameID = g]

C11_AddStep(g, tp) ==
  IF ExpectedBackend = {"local"}
  THEN IF isInWishlist(g)
       THEN EntryOf(items', g).addedAt = EntryOf(items, g).addedAt
       ELSE /\ EntryOf(items', g).addedAt = now
            /\ EntryOf(items', g).lastChecked = now
  ELSE lastCall'.rejected \/
       IF cloud[user][g].exists /\ cloud[user][g].gameID = g
       THEN cloud'[user][g].addedAt = cloud[user][g].addedAt
       ELSE /\ cloud'[user][g].addedAt = now
            /\ cloud'[user][g].lastChecked = now

\* C11: addToWishlist sets addedAt and lastChecked to the current time only when
\* the gameID is not tracked yet; re-adding a tracked gameID replaces the entry and
\* keeps its original addedAt.
C11_ReAddKeepsAddedAt ==
  [][\A g \in Games, tp \in AddTargets :
       (addToWishlist(g, tp) /\ user # NoUser) => C11_AddStep(g, tp)]_vars

\* the list shows the documents of a snapshot and nothing else: one item per
\* document, carrying the document's fields
ShowsExactly(list, docs) ==
  /\ Len(list) = Cardinality({g \in Games : docs[g].exists})
  /\ \A g \in Games :
       docs[g].exists =>
         \E k \in 1..Len(list) :
           /\ list[k].id = g
           /\ \A f \in {"gameID", "gameTitle", "steamAppID", "thumb", "targetPrice",
                         "currentBestPrice"} : list[k][f] = docs[g][f]
           /\ list[k].addedAt = (IF docs[g].addedAt = UNDEFINED THEN now
                                 ELSE docs[g].addedAt)

C12_Step ==
  /\ onSnapshot => ShowsExactly(items', Head(snapQueue))
  /\ (ExpectedBackend = {"cloud"} /\ ExpectedBackend' = {"cloud"} /\ user' = user) =>
        (items' = items \/ onSnapshot)

\* C12: in cloud mode the in-memory list is the most recently delivered snapshot:
\* a delivery replaces the whole list by the snapshot's documents, and nothing else
\* (no add, remove or updateTargetPrice) changes the list during the session.
C12_ListIsLastSnapshot == [][C12_Step]_vars

\* a cloud remove succeeded and its echo is still queued: the list shows the game
C12_Witness ==
  /\ ExpectedBackend = {"cloud"}
  /\ lastCall.op = "remove" /\ ~lastCall.rejected
  /\ snapQueue # <<>>
  /\ Len(items) = 1
  /\ ~cloud[user][items[1].gameID].exists

\* C13: at most one cloud wishlist listener is subscribed at any time: a change of
\* user or mode unsubscribes the previous listener before a new one is started, the
\* listener is that of the signed-in user's cloud session, and without a user no
\* listener and no undelivered snapshot remains.
C13_AtMostOneListener ==
  /\ Len(listeners) <= 1
  /\ listeners # <<>> => (listeners = <<user>> /\ ExpectedBackend = {"cloud"})
  /\ user = NoUser => (listeners = <<>> /\ snapQueue = <<>>)

\* a cloud session that follows a local (demo) session which wrote its list
C13_Witness ==
  /\ listeners = <<user>> /\ user \in Users
  /\ localStore # NoKey
  /\ calls > 0

C14_EmptyWithoutUser ==
  (mounted /\ user = NoUser) =>
     /\ items = <<>>
     /\ listeners = <<>>
     /\ snapQueue = <<>>

C14_LogoutStep ==
  /\ logout =>
       \/ user' = NoUser /\ items' = <<>>
       \/ user' = user /\ fbUser' = NoUser /\ authPending'
  /\ (onAuthStateChanged /\ fbUser = NoUser) => (user' = NoUser /\ items' = <<>>)
  /\ \A g \in Games, tp \in AddTargets :
       (addToWishlist(g, tp) /\ user = NoUser) => (items' = <<>> /\ user' = NoUser)

\* C14: on logout the store is back in Unauthenticated with an empty list: logout
\* of a local session clears user and list at once, logout of a cloud session
\* signs out and the auth listener's report clears them; while the user is null the
\* list is empty, no listener can fill it and no add changes it.
C14_LogoutClearsList == []C14_EmptyWithoutUser /\ [][C14_LogoutStep]_vars

\* logged out after a local session and a cloud session that both stored a game
C14_Witness ==
  /\ mounted /\ user = NoUser /\ items = <<>>
  /\ localStore # NoKey /\ Len(localStore[1]) > 0
  /\ \E g \in Games : cloud["u1"][g].exists

\* a step that starts a session on the cloud backend
StartsCloudSession ==
  /\ ExpectedBackend' = {"cloud"}
  /\ (user' # user \/ ExpectedBackend # {"cloud"})

C15_Step ==
  /\ StartsCloudSession => loading'
  /\ (ExpectedBackend = {"cloud"} /\ ExpectedBackend' = {"cloud"} /\ user' = user
        /\ loading /\ ~loading')
       => (onSnapshot \/ onSnapshotError)

\* C15: after each login the store reports loading = true until the backend's
\* initial read has resolved: a session that starts on the cloud backend is loading
\* until its first snapshot (or the listener's error), so the list a previous
\* state left is not presented as loaded.
C15_LoadingUntilInitialRead == [][C15_Step]_vars

\* the list holds game g with target tp
HoldsWithTarget(list, g, tp) ==
  \E k \in 1..Len(list) : list[k].gameID = g /\ list[k].targetPrice = tp

\* a handler call of a signed-in user: a rejected cloud write leaves list and
\* store alone; a local call resolves and shows its new state, stored or not
C16_CallStep(g) ==
  IF ExpectedBackend = {"cloud"}
  THEN lastCall'.rejected => (items' = items /\ cloud' = cloud)
  ELSE /\ ~lastCall'.rejected
       /\ ~storageOK => localStore' = localStore

C16_Step ==
  /\ \A g \in Games, tp \in AddTargets :
       (addToWishlist(g, tp) /\ user # NoUser) =>
          /\ C16_CallStep(g)
          /\ ExpectedBackend = {"local"} => HoldsWithTarget(items', g, tp)
  /\ \A g \in Games :
       (removeFromWishlist(g) /\ user # NoUser) =>
          /\ C16_CallStep(g)
          /\ ExpectedBackend = {"local"} => EntriesOf(items', g) = <<>>
  /\ \A g \in Games, tp \in UpdateTargets :
       (updateTargetPrice(g, tp) /\ user # NoUser) =>
          /\ C16_CallStep(g)
          /\ (ExpectedBackend = {"local"} /\ isInWishlist(g)) =>
                HoldsWithTarget(items', g, tp)

\* C16: a failed persistence write never rolls the in-memory list back: a failed
\* cloud write rejects the call and leaves the list as it was; a failed
\* local-storage write is swallowed, the call resolves and the list keeps the new
\* state.
C16_WriteFailureKeepsList == [][C16_Step]_vars

\* a local add resolved with the game in the list although nothing could be stored
C16_Witness ==
  /\ ExpectedBackend = {"local"} /\ ~storageOK
  /\ lastCall.op = "add" /\ ~lastCall.rejected
  /\ Len(items) = NumGames
  /\ localStore = NoKey

\* ------------------------------------------------------------------- C17
\* C17: a user-initiated add, remove or save that fails (a rejected cloud write in
\* a wishlist toggle) ends with the page in a displayed error state.
C17_FailureIsDisplayed == lastCall.rejected => pageError # "null"

\* ------------------------------------------------------------------- C18
\* the provider fetches started and the transport calls made so far
ProviderFetches == {k \in 1..Len(trace) : trace[k].ev = "fetch"}
TransportCalls == importCalls + sendCalls

\* C18: in the report flow an address that is not syntactically valid is rejected
\* before any I/O: handleSend starts no provider fetch and makes no transport call.
C18_InvalidAddressNoIO ==
  ~isValidEmail(to_email) => (ProviderFetches = {} /\ TransportCalls = 0)

\* ------------------------------------------------------------------- C19
\* the messages the report flow shows that do not come from a provider
OwnMessages == {NoAlerts, <<"Email inválido">>, <<"Error al enviar email">>}

\* an error shown after a pass with at least one result is not a provider error
C19_NoProviderErrorWithResults ==
  (status = "error" /\ Len(results) > 0) => message \in OwnMessages

\* C19: provider errors are surfaced exactly when they leave the price-check pass
\* with zero usable results: a pass that ends in success has at least one result,
\* and an error shown after a pass with results is not a provider error.
C19_ZeroResultsEndInError ==
  /\ status = "success" => Len(results) > 0
  /\ C19_NoProviderErrorWithResults

\* ------------------------------------------------------------------- C20
\* back reproduces list: as many items in the same order, each with the same
\* gameID, targetPrice, addedAt and lastChecked, and the same addedAt ordering
\* between any two items
Reproduces(back, list) ==
  /\ Len(back) = Len(list)
  /\ \A k \in 1..Len(list) :
       /\ back[k].gameID = list[k].gameID
       /\ back[k].targetPrice = list[k].targetPrice
       /\ back[k].addedAt = list[k].addedAt
       /\ back[k].lastChecked = list[k].lastChecked
  /\ \A j, k \in 1..Len(list) :
       (list[j].addedAt < list[k].addedAt) <=> (back[j].addedAt < back[k].addedAt)

\* a step that writes local storage saves the list the handler has set
C20_Step == localStore' # localStore => Reproduces(loadLocalWishlist', items')

ReachedPositions(list) ==
  {k \in 1..Len(list) : list[k].isAtTarget /\ list[k].targetPrice # NULL}
NthReached(list, n) ==
  CHOOSE k \in ReachedPositions(list) :
    Cardinality({j \in ReachedPositions(list) : j <= k}) = n

\* out is list filtered to the results at their target, in the input's order
IsAlertsOf(out, list) ==
  /\ Len(out) = Cardinality(ReachedPositions(list))
  /\ \A n \in 1..Len(out) :
       LET r == list[NthReached(list, n)]
       IN out[n] = [gameTitle |-> r.gameTitle, currentPrice |-> r.currentBestPrice,
                    targetPrice |-> r.targetPrice, savings |-> r.savings,
                    dealUrl |-> r.dealUrl]

\* C21: getTargetReachedAlerts returns exactly the results with isAtTarget true and
\* a non-null targetPrice, in the input's order, each alert with that result's
\* title, current price, target price, savings and deal URL.
C21_AlertsAreReachedResults ==
  (reportType = "alerts" /\ hpc \in {"send", "done"}) => IsAlertsOf(alerts, results)

\* an alerts pass over two results of which only the second is at its target
C21_Witness ==
  /\ reportType = "alerts"
  /\ hpc = "send"
  /\ Len(results) = 2
  /\ ~results[1].isAtTarget
  /\ results[1].targetPrice # NULL
  /\ results[2].isAtTarget
  /\ Len(alerts) = 1

\* ------------------------------------------------------------------- C22
\* after is before overridden by exactly the fields of updates
OverriddenBy(after, before, updates) ==
  /\ DOMAIN after = DOMAIN before
  /\ \A f \in DOMAIN before :
       after[f] = (IF f \in DOMAIN updates THEN updates[f] ELSE before[f])

\* the persisted local copy holds exactly prefs
LocalCopyIs(store, prefs) == store # NoKey /\ ParsePrefs(store[1]) = prefs

\* a setDoc of the preferences has just failed
C22_FailedCloudWrite ==
  Len(prefWrites') < Len(prefWrites) /\ lastPrefWrite' = "failed"

\* C22: preferences are write-through: after every updatePreferences(updates) the
\* in-memory preferences are the previous ones overridden by exactly the fields in
\* updates and the persisted local copy equals them (the defaults after
\* resetPreferences); a failed cloud write changes neither.
C22_Step ==
  /\ \A updates \in PrefUpdates :
       updatePreferences(updates) =>
         /\ OverriddenBy(preferences', preferences, updates)
         /\ LocalCopyIs(localPrefs', preferences')
  /\ resetPreferences =>
       /\ preferences' = DEFAULT_PREFERENCES
       /\ LocalCopyIs(localPrefs', DEFAULT_PREFERENCES)
  /\ C22_FailedCloudWrite => UNCHANGED <<preferences, localPrefs>>

C22_WriteThrough == [][C22_Step]_vars

\* C22 as the code has it: the local copy equals the in-memory preferences when
\* the storage write succeeds; when localStorage.setItem throws, the error is
\* logged and the local copy stays as it was.
C22_AmendedStep ==
  /\ \A updates \in PrefUpdates :
       updatePreferences(updates) =>
         /\ OverriddenBy(preferences', preferences, updates)
         /\ storageOK => LocalCopyIs(localPrefs', preferences')
         /\ ~storageOK => localPrefs' = localPrefs
  /\ resetPreferences =>
       /\ preferences' = DEFAULT_PREFERENCES
       /\ storageOK => LocalCopyIs(localPrefs', DEFAULT_PREFERENCES)
       /\ ~storageOK => localPrefs' = localPrefs
  /\ C22_FailedCloudWrite => UNCHANGED <<preferences, localPrefs>>

C22_WriteThroughWhenStorageWorks == [][C22_AmendedStep]_vars

\* two updates have accumulated, the local copy follows, a cloud write has failed
C22_Witness ==
  /\ lastPrefOp = "update"
  /\ lastPrefWrite = "failed"
  /\ storageOK
  /\ preferences.minPrice = 10
  /\ preferences.minDiscount = 50
  /\ LocalCopyIs(localPrefs, preferences)
  /\ cloudPrefs = NoPrefsDoc

\* ------------------------------------------------------------------- C23
\* the positions of the deals of minimum sale price, and the first of them
MinPositions(deals) ==
  {b \in 1..Len(deals) :
     \A k \in 1..Len(deals) :
       parseFloat(deals[b].salePrice) <= parseFloat(deals[k].salePrice)}
FirstMin(deals) == CHOOSE b \in MinPositions(deals) : \A c \in MinPositions(deals) : b <= c

\* result is built from the first deal of minimum price
FromFirstMin(result, deals) ==
  LET best == deals[FirstMin(deals)]
  IN /\ result.currentBestPrice = parseFloat(best.salePrice)
     /\ result.currentBestStore = StoreName(best.storeID)
     /\ result.dealUrl = DealUrl(best.dealID)
     /\ result.originalPrice = parseFloat(best.normalPrice)
     /\ result.discount = MathRound(parseFloat(best.savings))

\* a fetch has settled with deals and its result has been pushed
C23_Step ==
  (cpc = "fetching" /\ cpc' # "fetching" /\ Len(fetched') > 0) =>
    /\ Len(results') = Len(results) + 1
    /\ FromFirstMin(results'[Len(results')], fetched')

\* C23: checkGamePrice picks a deal whose salePrice is the minimum over the returned
\* deals, the first in provider order among those of minimum price; the result's
\* store, deal URL, original price and discount come from that same deal.
C23_BestIsFirstMinimum == [][C23_Step]_vars

\* three deals, the minimum shared by the second and the third: the second is taken
C23_Witness ==
  /\ Len(fetched) = 3
  /\ MinPositions(fetched) = {2, 3}
  /\ Len(results) > 0
  /\ results[Len(results)].dealUrl = DealUrl(fetched[2].dealID)
  /\ results[Len(results)].currentBestStore = "Steam"

\* ------------------------------------------------------------------- C24
\* every item of the wishlist has been fetched exactly once
VisitedOnce ==
  \A i \in 1..Len(wishlist) :
    Cardinality({k \in 1..Len(trace) : trace[k].ev = "fetch" /\ trace[k].i = i}) = 1

\* C24: a price-check pass, once started, runs to completion: when every provider
\* fetch settles, checkAllPrices ends having visited every item exactly once,
\* whatever items were skipped or failed.
C24_PassRunsToCompletion == (cpc = "loop") ~> (cpc = "done" /\ VisitedOnce)

\* a pass over a full wishlist has ended although the first fetch failed and
\* the second gave no deals
C24_Witness ==
  /\ cpc = "done"
  /\ Len(wishlist) = MaxWishlist
  /\ VisitedOnce
  /\ Len(results) < Len(wishlist)
  /\ \E k \in 1..Len(trace) :
       trace[k].ev = "settle" /\ trace[k].i = 1 /\ trace[k].kind = "networkError"
  /\ \E k \in 1..Len(trace) :
       trace[k].ev = "settle" /\ trace[k].i = 2 /\ trace[k].kind = "noDeals"

\* ------------------------------------------------------------------- C25
\* the calls of handleSend that have not returned
PassesInFlight == Len(earlier) + (IF InFlight(hpc) THEN 1 ELSE 0)

\* C25: the report modal gates the start of price-check passes: whatever the user
\* does (close, reopen, retry), at most one pass started by handleSend is in flight.
C25_AtMostOnePass == PassesInFlight <= 1

\* ------------------------------------------------------------------- C26
\* C26: once handleClose has reset the modal to idle and closed it, its status and
\* message stay as they are until the user sends again: while the modal is closed,
\* where no send can be initiated, the completion of a pass changes neither.
C26_Step == ~isOpen => (status' = status /\ message' = message)

C26_ClosedModalStaysIdle == [][C26_Step]_vars

\* ------------------------------------------------------------------- C27
\* C27: in local mode no wishlist mutation is lost, also when two mutations are
\* issued one after the other from the same captured items: the in-memory list, and
\* the stored list where storage works, hold one entry for every game added and
\* not removed since.
C27_NoLostMutation ==
  ExpectedBackend = {"local"} =>
    /\ \A g \in Games : Len(EntriesOf(items, g)) = (IF g \in tracked THEN 1 ELSE 0)
    /\ (storageOK /\ lastCall.wrote = {"local"}) =>
         IdsOfList(loadLocalWishlist) = tracked

\* ------------------------------------------------------------------- C28
\* every entry of the list has a defined gameID
C28_DefinedGameIDs == \A k \in 1..Len(items) : items[k].gameID # UNDEFINED

\* updateTargetPrice of a game that is not tracked writes nothing: the list stays
\* as it is and, in cloud mode, no document is created
C28_Step ==
  \A g \in Games, tp \in UpdateTargets :
    (updateTargetPrice(g, tp) /\ user # NoUser) =>
      /\ (ExpectedBackend = {"local"} /\ ~isInWishlist(g)) => items' = items
      /\ (ExpectedBackend = {"cloud"} /\ ~cloud[user][g].exists) =>
           cloud'[user] = cloud[user]

\* C28: updateTargetPrice(gameID, price) for a gameID that is not in the wishlist
\* never creates an entry, in either backend mode: after it, and after the next
\* cloud push, the list holds the same gameIDs and every entry has a defined gameID.
C28_UpdateNeverCreates == []C28_DefinedGameIDs /\ [][C28_Step]_vars

\* ------------------------------------------------------------------- C29
DemoSession == user = DEMO_USER /\ isDemo

\* a step from a demo session that is not a logout keeps the session
C29_Step == (DemoSession /\ ~logout) => DemoSession'

\* C29: once loginAsDemo has established a demo session it stays unchanged until
\* logout is called: an auth-state callback of the cloud auth listener arriving
\* afterwards neither clears the user nor switches isDemo to false.
C29_DemoSessionStays == [][C29_Step]_vars

\* ------------------------------------------------------------------- C30
\* the calls admitted for key since its last reset whose instant lies in from..to
AdmittedIn(key, from, to) ==
  {i \in 1..Len(admitted[key]) : from <= admitted[key][i] /\ admitted[key][i] <= to}

\* no window of windowMs holds more than maxRequests admitted calls of a key
C30_WindowBound ==
  \A key \in Keys, t \in 0..MaxNow :
    Cardinality(AdmittedIn(key, t, t + windowMs - 1)) <= maxRequests

C30_Step ==
  \A key \in Keys :
    /\ isAllowed(key) =>
         /\ lastLimiterCall'.returned =
              (Cardinality(AdmittedIn(key, clock - windowMs + 1, clock)) < maxRequests)
         /\ ~lastLimiterCall'.returned => timestamps' = timestamps
         /\ \A other \in Keys \ {key} : timestamps'[other] = timestamps[other]
    /\ (lastLimiterCall = [op |-> "reset", key |-> key, returned |-> FALSE]
          /\ isAllowed(key)) => lastLimiterCall'.returned
    /\ reset(key) =>
         /\ timestamps'[key] = <<>>
         /\ \A other \in Keys \ {key} :
              /\ timestamps'[other] = timestamps[other]
              /\ admitted'[other] = admitted[other]

\* C30: RateLimiter.isAllowed admits, for each key on its own, at most maxRequests
\* calls within any window of windowMs: a call returns true only when fewer than
\* maxRequests admitted calls of the key lie within the last windowMs, a rejected
\* call records nothing, and reset(key) restores the full quota of that key only.
C30_SlidingWindowLimit == []C30_WindowBound /\ [][C30_Step]_vars

\* the quota of one key is used up and a call has just been rejected, while the
\* other key has been admitted and the window has moved on since the first call
C30_Witness ==
  /\ lastLimiterCall = [op |-> "isAllowed", key |-> "search", returned |-> FALSE]
  /\ Len(admitted["search"]) > maxRequests
  /\ Len(admitted["api"]) = 1
  /\ clock = MaxNow

====
